---- MODULE Spec2Model ----
(***************************************************************************)
(* Model of the statistical quality engine of the Six Sigma tools:        *)
(* DPMO <-> sigma conversion, process capability, Western Electric rules, *)
(* control charts, P-chart, what-if scenarios and financial impact.       *)
(*                                                                         *)
(* Numbers.  The Python code computes with IEEE-754 doubles (numpy        *)
(* float64 and Python float).  A double is modelled as a record           *)
(*   [k |-> kind, n |-> numerator, d |-> denominator]                     *)
(* with kind "num" (the exact rational n/d, d > 0), "inf", "ninf", "nan", *)
(* or "tiny": a positive double smaller than 2^-54 (such as 1e-11), for   *)
(* which 1 - x rounds to exactly 1.0.  Rational arithmetic is exact; the  *)
(* special values follow IEEE-754 as numpy applies it (x/0 = +-inf or     *)
(* nan, comparisons with nan are false).  The kinds "above" and "below"   *)
(* are the doubles next to n/d, above it and below it: what a sum of      *)
(* copies of 0.1 divided by their number rounds to.  The library functions *)
(* scipy.stats.norm.ppf and norm.cdf are tables of their values, in       *)
(* millionths of a sigma and in billionths of a probability.              *)
(***************************************************************************)
EXTENDS Integers, Naturals, Sequences, FiniteSets, TLC

VARIABLES pc, op, args, ret

vars == <<pc, op, args, ret>>

----------------------------------------------------------------------------
(* IEEE-754 doubles *)

Num(n, d) == [k |-> "num", n |-> n, d |-> d]
I(n) == Num(n, 1)
PosInf == [k |-> "inf", n |-> 0, d |-> 1]
NegInf == [k |-> "ninf", n |-> 0, d |-> 1]
NaN == [k |-> "nan", n |-> 0, d |-> 1]
Tiny == [k |-> "tiny", n |-> 0, d |-> 1]
None == [k |-> "none", n |-> 0, d |-> 1]

\* 0.1, and the doubles a few units in the last place above and below x
Tenth == Num(1, 10)
UlpAbove(x) == [k |-> "above", n |-> x.n, d |-> x.d]
UlpBelow(x) == [k |-> "below", n |-> x.n, d |-> x.d]
Near == {"above", "below"}
Finite == {"num", "above", "below"}
Off(a) == CASE a.k = "above" -> 1 [] a.k = "below" -> -1 [] OTHER -> 0
Rat(a) == Num(a.n, a.d)

Abs(x) == IF x < 0 THEN -x ELSE x

RECURSIVE GCD(_, _)
GCD(a, b) == IF b = 0 THEN a ELSE GCD(b, a % b)

Gcd1(a, b) == LET g == GCD(Abs(a), Abs(b)) IN IF g = 0 THEN 1 ELSE g

\* the rational in lowest terms
FNorm(a) ==
    IF a.k # "num" THEN a
    ELSE LET g == Gcd1(a.n, a.d) IN Num(a.n \div g, a.d \div g)

Sign(a) ==
    CASE a.k = "inf" -> 1
      [] a.k = "ninf" -> -1
      [] a.k = "tiny" -> 1
      [] a.k \in Finite -> (IF a.n > 0 THEN 1 ELSE IF a.n < 0 THEN -1 ELSE 0)
      [] OTHER -> 0

IsNaN(a) == a.k = "nan"

\* a < b on doubles; false as soon as one side is nan.  A tiny value lies
\* strictly between 0 and every positive rational of the model.
FLt(a, b) ==
    CASE a.k = "num" /\ b.k = "num" ->
            (IF a.d = 1 \/ b.d = 1 THEN a.n * b.d < b.n * a.d
             ELSE LET g == Gcd1(a.d, b.d)
                  IN a.n * (b.d \div g) < b.n * (a.d \div g))
      [] a.k \in Finite /\ b.k \in Finite ->
            \/ a.n * b.d < b.n * a.d
            \/ a.n * b.d = b.n * a.d /\ Off(a) < Off(b)
      [] a.k \in {"nan", "none"} \/ b.k \in {"nan", "none"} -> FALSE
      [] a.k = "inf" -> FALSE
      [] b.k = "ninf" -> FALSE
      [] a.k = "ninf" -> TRUE
      [] b.k = "inf" -> TRUE
      [] a.k = "tiny" /\ b.k = "tiny" -> FALSE
      [] a.k = "tiny" -> b.n > 0
      [] b.k = "tiny" -> a.n <= 0

FEq(a, b) ==
    CASE a.k \in {"nan", "none"} \/ b.k \in {"nan", "none"} -> FALSE
      [] a.k = "num" /\ b.k = "num" -> FNorm(a) = FNorm(b)
      [] a.k \in Near \/ b.k \in Near -> a.k = b.k /\ FNorm(Rat(a)) = FNorm(Rat(b))
      [] OTHER -> a.k = b.k

FGt(a, b) == FLt(b, a)
FLe(a, b) == FLt(a, b) \/ FEq(a, b)
FGe(a, b) == FLt(b, a) \/ FEq(a, b)

FNeg(a) ==
    CASE a.k = "num" -> Num(-a.n, a.d)
      [] a.k = "above" -> UlpBelow(Num(-a.n, a.d))
      [] a.k = "below" -> UlpAbove(Num(-a.n, a.d))
      [] a.k = "inf" -> NegInf
      [] a.k = "ninf" -> PosInf
      [] OTHER -> NaN

\* the exact sum of the rationals of a and b
RatAdd(a, b) ==
    LET g == Gcd1(a.d, b.d)
    IN FNorm(Num(a.n * (b.d \div g) + b.n * (a.d \div g), a.d * (b.d \div g)))

\* a + b.  Adding or subtracting a tiny value to a double of magnitude at
\* least 1/2 rounds back to that double (round to nearest).  A double next
\* to x plus y is next to x + y, on the same side; a double minus itself
\* is 0.
FAdd(a, b) ==
    CASE a.k = "nan" \/ b.k = "nan" -> NaN
      [] a.k = "inf" -> (IF b.k = "ninf" THEN NaN ELSE PosInf)
      [] a.k = "ninf" -> (IF b.k = "inf" THEN NaN ELSE NegInf)
      [] b.k \in {"inf", "ninf"} -> b
      [] a.k = "num" /\ b.k = "num" ->
            LET g == Gcd1(a.d, b.d)
            IN FNorm(Num(a.n * (b.d \div g) + b.n * (a.d \div g),
                         a.d * (b.d \div g)))
      [] a.k = "num" /\ b.k = "tiny" /\ 2 * Abs(a.n) >= a.d -> a
      [] a.k = "tiny" /\ b.k = "num" /\ 2 * Abs(b.n) >= b.d -> b
      [] a.k \in Near /\ b.k = "num" -> [RatAdd(a, b) EXCEPT !.k = a.k]
      [] a.k = "num" /\ b.k \in Near -> [RatAdd(a, b) EXCEPT !.k = b.k]
      [] a.k \in Near /\ b.k \in Near /\ a.k # b.k /\ RatAdd(a, b).n = 0 -> I(0)

FSub(a, b) ==
    IF b.k = "tiny" THEN FAdd(a, b) ELSE FAdd(a, FNeg(b))

FMul(a, b) ==
    CASE a.k = "nan" \/ b.k = "nan" -> NaN
      [] a.k \in {"inf", "ninf"} \/ b.k \in {"inf", "ninf"} ->
            (IF Sign(a) * Sign(b) > 0 THEN PosInf
             ELSE IF Sign(a) * Sign(b) < 0 THEN NegInf ELSE NaN)
      [] a.k = "num" /\ b.k = "num" ->
            LET g1 == Gcd1(a.n, b.d)
                g2 == Gcd1(b.n, a.d)
            IN FNorm(Num((a.n \div g1) * (b.n \div g2),
                         (a.d \div g2) * (b.d \div g1)))
      [] a.k = "num" /\ b.k \in Near /\ a.n > 0 ->
            [FNorm(Num(a.n * b.n, a.d * b.d)) EXCEPT !.k = b.k]
      [] a.k = "num" /\ b.k \in Near /\ a.n = 0 -> I(0)

FInv(b) == IF b.n > 0 THEN Num(b.d, b.n) ELSE Num(-b.d, -b.n)

\* numpy's true division: a finite value over zero is +-inf or nan with a
\* RuntimeWarning, never an exception.  A tiny value divided by a rational
\* of at least 1 stays tiny.
NpDiv(a, b) ==
    CASE a.k = "nan" \/ b.k = "nan" -> NaN
      [] a.k \in {"inf", "ninf"} /\ b.k \in {"inf", "ninf"} -> NaN
      [] b.k \in {"inf", "ninf"} -> I(0)
      [] b.k = "num" /\ b.n = 0 ->
            (IF Sign(a) > 0 THEN PosInf
             ELSE IF Sign(a) < 0 THEN NegInf ELSE NaN)
      [] a.k \in {"inf", "ninf"} ->
            (IF Sign(a) * Sign(b) > 0 THEN PosInf ELSE NegInf)
      [] a.k = "tiny" /\ b.k = "num" /\ b.n >= b.d -> Tiny
      [] a.k = "num" /\ b.k = "num" -> FMul(a, FInv(b))
      [] a.k \in Near /\ b.k = "num" /\ b.n > 0 ->
            [FNorm(Num(a.n * b.d, a.d * b.n)) EXCEPT !.k = a.k]

----------------------------------------------------------------------------
(* scipy.stats.norm *)

\* <<n, d, z>>: norm.ppf(n/d) = z millionths, n/d in lowest terms
PpfTable ==
    {
      <<1, 1000000, -4753424>>, <<1, 100000, -4264891>>, <<1, 1000, -3090232>>, <<1, 20, -1644854>>,
      <<33403, 500000, -1500009>>, <<66807, 1000000, -1500002>>, <<8351, 125000, -1499994>>, <<1, 12, -1382994>>,
      <<1, 11, -1335178>>, <<1, 10, -1281552>>, <<1, 9, -1220640>>, <<1, 8, -1150349>>,
      <<1, 7, -1067571>>, <<3, 20, -1036433>>, <<31731, 200000, -1000001>>, <<1, 6, -967422>>,
      <<2, 11, -908458>>, <<1, 5, -841621>>, <<2, 9, -764710>>, <<1, 4, -674490>>,
      <<3, 11, -604585>>, <<2, 7, -565949>>, <<3, 10, -524401>>, <<154269, 500000, -499999>>,
      <<1, 3, -430727>>, <<7, 20, -385320>>, <<4, 11, -348756>>, <<3, 8, -318639>>,
      <<2, 5, -253347>>, <<5, 12, -210428>>, <<3, 7, -180012>>, <<4, 9, -139710>>,
      <<9, 20, -125661>>, <<5, 11, -114185>>, <<1, 2, 0>>, <<6, 11, 114185>>,
      <<11, 20, 125661>>, <<5, 9, 139710>>, <<4, 7, 180012>>, <<7, 12, 210428>>,
      <<3, 5, 253347>>, <<5, 8, 318639>>, <<7, 11, 348756>>, <<13, 20, 385320>>,
      <<2, 3, 430727>>, <<345731, 500000, 499999>>, <<7, 10, 524401>>, <<5, 7, 565949>>,
      <<8, 11, 604585>>, <<3, 4, 674490>>, <<7, 9, 764710>>, <<4, 5, 841621>>,
      <<9, 11, 908458>>, <<5, 6, 967422>>, <<168269, 200000, 1000001>>, <<17, 20, 1036433>>,
      <<6, 7, 1067571>>, <<7, 8, 1150349>>, <<8, 9, 1220640>>, <<9, 10, 1281552>>,
      <<10, 11, 1335178>>, <<11, 12, 1382994>>, <<933193, 1000000, 1500002>>, <<19, 20, 1644854>>,
      <<99, 100, 2326348>>, <<99379, 100000, 2499981>>, <<999, 1000, 3090232>>, <<999767, 1000000, 3499575>>,
      <<9999, 10000, 3719016>>, <<99999, 100000, 4264891>>, <<249999, 250000, 4465184>>, <<999997, 1000000, 4526389>>,
      <<999999, 1000000, 4753424>>
    }

\* <<z, p>>: norm.cdf(z millionths) = p billionths
CdfTable ==
    {
      <<-4753424, 1000>>, <<-4264891, 10000>>, <<-3090232, 1000001>>, <<-1644854, 49999962>>,
      <<-1500009, 66806036>>, <<-1500002, 66806942>>, <<-1500000, 66807201>>, <<-1499994, 66807978>>,
      <<-1382994, 83333353>>, <<-1335178, 90909048>>, <<-1281552, 99999924>>, <<-1220640, 111111177>>,
      <<-1150349, 125000078>>, <<-1067571, 142857035>>, <<-1036433, 150000091>>, <<-1000001, 158655012>>,
      <<-1000000, 158655254>>, <<-967422, 166666558>>, <<-908458, 181818147>>, <<-841621, 200000065>>,
      <<-764710, 222222125>>, <<-674490, 249999921>>, <<-604585, 272727388>>, <<-565949, 285714225>>,
      <<-524401, 299999831>>, <<-500000, 308537539>>, <<-499999, 308537891>>, <<-430727, 333333442>>,
      <<-385320, 350000173>>, <<-348756, 363636249>>, <<-318639, 375000138>>, <<-253347, 400000040>>,
      <<-210428, 416666821>>, <<-180012, 428571574>>, <<-139710, 444444563>>, <<-125661, 450000137>>,
      <<-114185, 454545571>>, <<0, 500000000>>, <<114185, 545454429>>, <<125661, 549999863>>,
      <<139710, 555555437>>, <<180012, 571428426>>, <<210428, 583333179>>, <<253347, 599999960>>,
      <<318639, 624999862>>, <<348756, 636363751>>, <<385320, 649999827>>, <<430727, 666666558>>,
      <<499999, 691462109>>, <<500000, 691462461>>, <<524401, 700000169>>, <<565949, 714285775>>,
      <<604585, 727272612>>, <<674490, 750000079>>, <<764710, 777777875>>, <<841621, 799999935>>,
      <<908458, 818181853>>, <<967422, 833333442>>, <<1000000, 841344746>>, <<1000001, 841344988>>,
      <<1036433, 849999909>>, <<1067571, 857142965>>, <<1150349, 874999922>>, <<1220640, 888888823>>,
      <<1281552, 900000076>>, <<1335178, 909090952>>, <<1382994, 916666647>>, <<1500000, 933192799>>,
      <<1500002, 933193058>>, <<1644854, 950000038>>, <<2000000, 977249868>>, <<2326348, 990000003>>,
      <<2499981, 993790002>>, <<2500000, 993790335>>, <<3000000, 998650102>>, <<3090232, 998999999>>,
      <<3499575, 999767000>>, <<3500000, 999767371>>, <<3719016, 999900000>>, <<4000000, 999968329>>,
      <<4264891, 999990000>>, <<4465184, 999996000>>, <<4500000, 999996602>>, <<4526389, 999997000>>,
      <<4753424, 999999000>>
    }

\* stats.norm.ppf(q): nan outside [0, 1], -inf at 0, +inf at 1
NormPpf(q) ==
    CASE q.k # "num" -> NaN
      [] q.n < 0 \/ q.n > q.d -> NaN
      [] q.n = 0 -> NegInf
      [] q.n = q.d -> PosInf
      [] OTHER -> LET r == FNorm(q)
                      e == CHOOSE t \in PpfTable : t[1] = r.n /\ t[2] = r.d
                  IN Num(e[3], 1000000)

\* stats.norm.cdf(z)
NormCdf(z) ==
    CASE z.k = "inf" -> I(1)
      [] z.k = "ninf" -> I(0)
      [] z.k = "num" ->
            LET r == FNorm(z)
                micro == r.n * (1000000 \div r.d)
                e == CHOOSE t \in CdfTable : t[1] = micro
            IN Num(e[2], 1000000000)
      [] OTHER -> NaN

----------------------------------------------------------------------------
(* DPMO <-> sigma conversion and its inline variants *)

\* the mutant: the ceiling test written dpmo < 0
calculate_sigma_level_lt(dpmo) ==
    IF FGe(dpmo, I(1000000)) THEN I(0)
    ELSE IF FLt(dpmo, I(0)) THEN I(6)
    ELSE FAdd(NormPpf(FSub(I(1), NpDiv(dpmo, I(1000000)))), Num(3, 2))

calculate_sigma_level(dpmo) ==
    IF FGe(dpmo, I(1000000)) THEN I(0)
    ELSE IF FLe(dpmo, I(0)) THEN I(6)
    ELSE FAdd(NormPpf(FSub(I(1), NpDiv(dpmo, I(1000000)))), Num(3, 2))

calculate_dpmo_from_sigma(sigma) ==
    FMul(FSub(I(1), NormCdf(FSub(sigma, Num(3, 2)))), I(1000000))

\* complete_dmaic_system.py, Measure page: the value of line 1167 is
\* overwritten by line 1168
SigmaLevelDmaic(dpmo) ==
    IF FLt(dpmo, I(933193))
    THEN FAdd(NormPpf(FSub(I(1), NpDiv(dpmo, I(1000000)))), Num(3, 2))
    ELSE I(0)

\* six_sigma_app.py, continuous analysis
SigmaLevelApp(dpmo) ==
    IF FGe(dpmo, I(933193)) THEN I(0)
    ELSE FAdd(NormPpf(FSub(I(1), NpDiv(dpmo, I(1000000)))), Num(3, 2))

\* six_sigma_dmaic_mentor.py, Measure phase
SigmaLevelMentor(dpmo) ==
    IF FGe(dpmo, I(1000000)) THEN I(0)
    ELSE FAdd(NormPpf(FSub(I(1), NpDiv(dpmo, I(1000000)))), Num(3, 2))

DpmoGrid ==
    {50000 * i : i \in 1..19} \cup
    {1, 3, 4, 10, 100, 233, 1000, 6210, 10000, 66807, 158655, 308538,
     691462, 841345, 933192, 933193, 933194, 999000, 999990, 999999}

DpmoInputs ==
    {I(g) : g \in DpmoGrid} \cup
    {I(0), I(1000000), I(-1), I(-500), I(1000001), I(2000000), Tiny, NaN}

InitSigma ==
    /\ pc = "call"
    /\ op = "none"
    /\ \E x \in DpmoInputs : args = [dpmo |-> x]
    /\ ret = [sigma |-> None, back |-> None]

CalculateSigmaLevel ==
    /\ pc = "call"
    /\ pc' = "done"
    /\ op' = "calculate_sigma_level"
    /\ ret' = [sigma |-> calculate_sigma_level(args.dpmo), back |-> None]
    /\ UNCHANGED args

MeasureSigmaDmaic ==
    /\ pc = "call"
    /\ pc' = "done"
    /\ op' = "dmaic"
    /\ ret' = [sigma |-> SigmaLevelDmaic(args.dpmo), back |-> None]
    /\ UNCHANGED args

ContinuousSigmaApp ==
    /\ pc = "call"
    /\ pc' = "done"
    /\ op' = "app"
    /\ ret' = [sigma |-> SigmaLevelApp(args.dpmo), back |-> None]
    /\ UNCHANGED args

MeasureSigmaMentor ==
    /\ pc = "call"
    /\ pc' = "done"
    /\ op' = "mentor"
    /\ ret' = [sigma |-> SigmaLevelMentor(args.dpmo), back |-> None]
    /\ UNCHANGED args

\* the round trip: the sigma level just computed is converted back
CalculateDpmoFromSigma ==
    /\ pc = "done"
    /\ op = "calculate_sigma_level"
    /\ pc' = "back"
    /\ ret' = [sigma |-> ret.sigma, back |-> calculate_dpmo_from_sigma(ret.sigma)]
    /\ UNCHANGED <<op, args>>

NextSigma ==
    \/ CalculateSigmaLevel
    \/ MeasureSigmaDmaic
    \/ ContinuousSigmaApp
    \/ MeasureSigmaMentor
    \/ CalculateDpmoFromSigma

SpecSigma == InitSigma /\ [][NextSigma]_vars

----------------------------------------------------------------------------
(* Claims about the conversion *)

SigmaDone(o) == pc = "done" /\ op = o

\* C1: calculate_sigma_level saturates: every dpmo >= 1,000,000 gives 0 and
\* every dpmo <= 0 gives 6.0.
C1_SigmaSaturates ==
    (SigmaDone("calculate_sigma_level") /\ args.dpmo.k = "num") =>
        /\ (args.dpmo.n >= 1000000 * args.dpmo.d) => ret.sigma = I(0)
        /\ (args.dpmo.n <= 0) => ret.sigma = I(6)

C1_Witness ==
    /\ SigmaDone("calculate_sigma_level")
    /\ args.dpmo = I(0)
    /\ ret.sigma = I(6)

\* two doubles are the same result: equal, or both nan
SameDouble(a, b) == FEq(a, b) \/ (IsNaN(a) /\ IsNaN(b))

\* C2: every variant of the DPMO-to-sigma computation returns, for every
\* dpmo in [0, 1,000,000], the sigma level calculate_sigma_level returns.
C2_VariantsAgree ==
    (pc = "done" /\ args.dpmo.k = "num"
        /\ args.dpmo.n >= 0 /\ args.dpmo.n <= 1000000 * args.dpmo.d) =>
        SameDouble(ret.sigma, calculate_sigma_level(args.dpmo))

\* |back - dpmo| <= dpmo / 1000
WithinRelTol(back, dpmo) ==
    CASE dpmo.k = "tiny" -> back.k = "tiny"
      [] dpmo.k = "num" /\ back.k = "num" ->
            LET diff == FSub(back, dpmo)
                adiff == IF diff.n < 0 THEN FNeg(diff) ELSE diff
            IN FLe(FMul(adiff, I(1000)), dpmo)
      [] OTHER -> FALSE

InOpenInterval(dpmo) == FGt(dpmo, I(0)) /\ FLt(dpmo, I(1000000))

\* C3: for every dpmo in the open interval (0, 1,000,000) the round trip
\* dpmo_from_sigma(sigma_from_dpmo(dpmo)) is dpmo within 1e-3 relative.
C3_RoundTrip ==
    (pc = "back" /\ InOpenInterval(args.dpmo)) =>
        WithinRelTol(ret.back, args.dpmo)

\* C25: the sigma level calculate_sigma_level returns is always within
\* [0, 6]: for every dpmo, values just below 1,000,000 and just above 0
\* included, the result is neither negative nor greater than the 6.0 ceiling.
C25_SigmaRange ==
    (SigmaDone("calculate_sigma_level") /\ args.dpmo.k = "num") =>
        /\ FGe(ret.sigma, I(0))
        /\ FLe(ret.sigma, I(6))

----------------------------------------------------------------------------
(* Process capability *)

\* A capability index is a quotient by the standard deviation: the record
\* [k |-> "surd", c, v] is the double c / sqrt(v), with c a double and v a
\* rational > 0 or tiny (then the index is finite and very large); the
\* other kinds are the IEEE special values.
Surd(c, v) == [k |-> "surd", c |-> c, v |-> v]
QInf == [k |-> "inf", c |-> I(0), v |-> I(1)]
QNegInf == [k |-> "ninf", c |-> I(0), v |-> I(1)]
QNaN == [k |-> "nan", c |-> I(0), v |-> I(1)]
QNone == [k |-> "none", c |-> I(0), v |-> I(1)]

\* A sample is a sequence of doubles.  Sums of integers and of mixed values
\* are exact in the model.
RECURSIVE SeqSum(_)
SeqSum(s) == IF s = <<>> THEN I(0) ELSE FAdd(Head(s), SeqSum(Tail(s)))

RECURSIVE SumSq(_)
SumSq(s) == IF s = <<>> THEN I(0) ELSE FAdd(FMul(Head(s), Head(s)), SumSq(Tail(s)))

\* all values of the sample are the same double
IsCopies(data) == Len(data) >= 1 /\ \A i \in 1..Len(data) : data[i] = data[1]

\* sum([0.1] * n) / n in doubles, as units in the last place away from 0.1,
\* for n = 1..12 (numpy's sum: left to right below 8 values, pairwise with
\* 8 accumulators from 8 values on)
TenthMeanUlps == <<0, 0, 1, 0, 0, -1, -1, 0, 0, 0, 0, 1>>

\* Series.mean(): the sum divided by the count; nan for an empty series.
\* For n copies of 0.1 the sum is rounded at each addition and the
\* quotient can miss 0.1 by a unit in the last place.
Mean(data) ==
    LET exact == NpDiv(SeqSum(data), I(Len(data)))
    IN IF IsCopies(data) /\ data[1] = Tenth /\ Len(data) <= Len(TenthMeanUlps)
       THEN (CASE TenthMeanUlps[Len(data)] > 0 -> UlpAbove(Tenth)
               [] TenthMeanUlps[Len(data)] < 0 -> UlpBelow(Tenth)
               [] OTHER -> Tenth)
       ELSE exact

\* Series.std(ddof): nan when len - ddof <= 0, else the square root of the
\* variance v, kept as [k |-> "sqrt", v |-> v]: v is the sum of the squared
\* deviations from the mean over len - ddof.  When the mean of a constant
\* sample misses the value by a unit in the last place, every deviation is
\* that unit and the variance is tiny, not zero.
Std(data, ddof) ==
    LET n == Len(data)
        sum == SeqSum(data)
    IN IF n - ddof <= 0 THEN [k |-> "nan", v |-> I(0)]
       ELSE IF Mean(data).k \in Near THEN [k |-> "sqrt", v |-> Tiny]
       ELSE [k |-> "sqrt",
             v |-> NpDiv(FSub(FMul(I(n), SumSq(data)), FMul(sum, sum)),
                         I(n * (n - ddof)))]

\* a / (m * std), numpy division
DivStd(a, m, s) ==
    CASE a.k = "nan" \/ s.k = "nan" -> QNaN
      [] s.v.k = "num" /\ s.v.n = 0 ->
            (IF Sign(a) > 0 THEN QInf
             ELSE IF Sign(a) < 0 THEN QNegInf ELSE QNaN)
      [] OTHER -> Surd(NpDiv(a, I(m)), s.v)

\* x < y for two indices over the same standard deviation
QLt(x, y) ==
    CASE x.k = "nan" \/ y.k = "nan" -> FALSE
      [] x.k = "inf" -> FALSE
      [] y.k = "ninf" -> FALSE
      [] x.k = "ninf" -> TRUE
      [] y.k = "inf" -> TRUE
      [] x.v = y.v -> FLt(x.c, y.c)

\* the mutant: the larger of the two one-sided indices
PyMin_max(a, b) == IF QLt(a, b) THEN b ELSE a

\* Python's min(a, b): b when b < a, else a (so a nan first argument stays)
PyMin(a, b) == IF QLt(b, a) THEN b ELSE a

\* the mutant: limits counted as defects (<= and >=)
IsDefect_inclusive(x, lsl, usl) == FLe(x, lsl) \/ FGe(x, usl)

\* the mutant: a defect is a value beyond both limits at once
IsDefect_both(x, lsl, usl) == FLt(x, lsl) /\ FGt(x, usl)

\* (data < lsl) | (data > usl), one element
IsDefect(x, lsl, usl) == FLt(x, lsl) \/ FGt(x, usl)

\* ((data < lsl) | (data > usl)).sum()
RECURSIVE CountDefects(_, _, _)
CountDefects(data, lsl, usl) ==
    IF data = <<>> THEN 0
    ELSE (IF IsDefect(Head(data), lsl, usl) THEN 1 ELSE 0)
         + CountDefects(Tail(data), lsl, usl)

\* (defects / len(data)) * 1000000
Dpmo(defects, n) == FMul(NpDiv(I(defects), I(n)), I(1000000))

\* Python truthiness of the target argument
Truthy(t) == t.k # "none" /\ ~(t.k = "num" /\ t.n = 0)

\* cp / np.sqrt(1 + ((mean - target) / std)**2)
Cpm(cp, mean, std, target) ==
    IF cp.k # "surd" THEN QNaN
    ELSE LET dev == Rat(FSub(mean, target))
         IN Surd(cp.c, FAdd(std.v, FMul(dev, dev)))

TypeError == [exc |-> "TypeError"]

calculate_process_capability(data, lsl, usl, target) ==
    IF lsl.k = "none" \/ usl.k = "none" THEN TypeError
    ELSE
    LET mean == Mean(data)
        std == Std(data, 1)
        std0 == Std(data, 0)
        cp == DivStd(FSub(usl, lsl), 6, std)
        cpu == DivStd(FSub(usl, mean), 3, std)
        cpl == DivStd(FSub(mean, lsl), 3, std)
        cpk == PyMin(cpu, cpl)
        pp == DivStd(FSub(usl, lsl), 6, std0)
        ppu == DivStd(FSub(usl, mean), 3, std0)
        ppl == DivStd(FSub(mean, lsl), 3, std0)
        ppk == PyMin(ppu, ppl)
        defects == CountDefects(data, lsl, usl)
        dpmo == Dpmo(defects, Len(data))
        sigma_level == calculate_sigma_level(dpmo)
        cpm == IF Truthy(target) THEN Cpm(cp, mean, std, target) ELSE QNone
    IN [exc |-> "none", mean |-> mean, std |-> std, cp |-> cp, cpu |-> cpu,
        cpl |-> cpl, cpk |-> cpk, pp |-> pp, ppu |-> ppu, ppl |-> ppl,
        ppk |-> ppk, cpm |-> cpm, defects |-> defects, dpmo |-> dpmo,
        sigma_level |-> sigma_level,
        yield |-> FMul(FSub(I(1), NpDiv(dpmo, I(1000000))), I(100))]

\* six_sigma_app.py, continuous analysis: the limits come from number
\* inputs and are always numbers
ContinuousMetricsApp(data, lsl, usl) ==
    LET mean == Mean(data)
        std == Std(data, 1)
        cp == DivStd(FSub(usl, lsl), 6, std)
        cpu == DivStd(FSub(usl, mean), 3, std)
        cpl == DivStd(FSub(mean, lsl), 3, std)
        cpk == PyMin(cpu, cpl)
        defects == CountDefects(data, lsl, usl)
        dpmo == Dpmo(defects, Len(data))
    IN [exc |-> "none", mean |-> mean, std |-> std, cp |-> cp, cpu |-> cpu,
        cpl |-> cpl, cpk |-> cpk, defects |-> defects, dpmo |-> dpmo,
        sigma_level |-> SigmaLevelApp(dpmo)]

\* x >= t for an index x and a positive constant t
QGeNum(x, t) ==
    CASE x.k = "inf" -> TRUE
      [] x.k = "surd" ->
            /\ Sign(x.c) > 0
            /\ \/ x.v.k = "tiny"
               \/ FGe(FMul(x.c, x.c), FMul(FMul(t, t), x.v))
      [] OTHER -> FALSE

\* abs(cp - cpk) > 0.2.  inf - inf is nan, which exceeds nothing.  Over a
\* tiny variance every difference of the numerators that is more than a unit
\* in the last place is a huge difference of the indices.
CenteringIssue(cp, cpk) ==
    CASE cp.k = "surd" /\ cpk.k = "surd" ->
            LET d == Rat(FSub(cp.c, cpk.c))
            IN IF cp.v.k = "tiny" THEN d.n # 0
               ELSE FGt(FMul(I(25), FMul(d, d)), cp.v)
      [] cp.k = "inf" /\ cpk.k = "ninf" -> TRUE
      [] cp.k = "ninf" /\ cpk.k = "inf" -> TRUE
      [] OTHER -> FALSE

\* interpret_cpk of complete_dmaic_system.py: the rating band of cpk and
\* the centering advice; the other texts follow the rating
interpret_cpk(cpk, cp) ==
    LET centering_issue == CenteringIssue(cp, cpk)
    IN [rating |-> CASE QGeNum(cpk, I(2)) -> "Excellent - Six Sigma Capable"
                     [] QGeNum(cpk, Num(167, 100)) -> "Very Good - Highly Capable"
                     [] QGeNum(cpk, Num(133, 100)) -> "Good - Capable"
                     [] QGeNum(cpk, I(1)) -> "Marginal - Barely Capable"
                     [] OTHER -> "Not Capable",
        centering_issue |-> centering_issue,
        centering_advice |->
            IF centering_issue
            THEN (IF QLt(cpk, cp) THEN "off-center" ELSE "well-centered")
            ELSE "",
        cpk |-> cpk,
        cp |-> cp]

\* the Measure page of complete_dmaic_system.py: the indices of lines
\* 1154-1163 and their interpretation
MeasureCapability(data, lsl, usl) ==
    LET mean == Mean(data)
        std == Std(data, 1)
        std0 == Std(data, 0)
        cp == DivStd(FSub(usl, lsl), 6, std)
        cpu == DivStd(FSub(usl, mean), 3, std)
        cpl == DivStd(FSub(mean, lsl), 3, std)
        cpk == PyMin(cpu, cpl)
        pp == DivStd(FSub(usl, lsl), 6, std0)
        ppk == PyMin(DivStd(FSub(usl, mean), 3, std0),
                     DivStd(FSub(mean, lsl), 3, std0))
    IN [exc |-> "none", mean |-> mean, std |-> std, cp |-> cp, cpu |-> cpu,
        cpl |-> cpl, cpk |-> cpk, pp |-> pp, ppk |-> ppk,
        cpk_interp |-> interpret_cpk(cpk, cp)]

MaxLen == 3
MaxVal == 3

Limits == {I(x) : x \in 0..MaxVal} \cup {None}
Targets == {None, I(0), I(1)}

DataValues == {I(x) : x \in 0..MaxVal}

\* samples of integers, and constant samples of 0.1
InitCap ==
    /\ pc = "call"
    /\ op = "none"
    /\ \E lsl \in Limits, usl \in Limits, target \in Targets :
          \/ \E m \in 0..MaxLen : \E data \in [1..m -> DataValues] :
                args = [data |-> data, lsl |-> lsl, usl |-> usl, target |-> target]
          \/ \E m \in 1..MaxLen :
                args = [data |-> [j \in 1..m |-> Tenth], lsl |-> lsl, usl |-> usl,
                        target |-> target]
    /\ ret = [exc |-> "pending"]

CalculateProcessCapability ==
    /\ pc = "call"
    /\ pc' = "done"
    /\ op' = "calculate_process_capability"
    /\ ret' = calculate_process_capability(args.data, args.lsl, args.usl, args.target)
    /\ UNCHANGED args

ContinuousAnalysisApp ==
    /\ pc = "call"
    /\ args.lsl.k = "num" /\ args.usl.k = "num"
    /\ pc' = "done"
    /\ op' = "app"
    /\ ret' = ContinuousMetricsApp(args.data, args.lsl, args.usl)
    /\ UNCHANGED args

\* complete_dmaic_system.py, Measure page: capability indices and
\* interpret_cpk(cpk, cp)
MeasureCapabilityAnalysis ==
    /\ pc = "call"
    /\ args.lsl.k = "num" /\ args.usl.k = "num"
    /\ Len(args.data) >= 1
    /\ pc' = "done"
    /\ op' = "interpret_cpk"
    /\ ret' = MeasureCapability(args.data, args.lsl, args.usl)
    /\ UNCHANGED args

NextCap ==
    \/ CalculateProcessCapability
    \/ ContinuousAnalysisApp
    \/ MeasureCapabilityAnalysis

SpecCap == InitCap /\ [][NextCap]_vars

----------------------------------------------------------------------------
(* Claims about the capability computation *)

CapDone == pc = "done" /\ op \in {"calculate_process_capability", "app"}

OutOfSpec(data, lsl, usl) ==
    {i \in 1..Len(data) : \/ data[i].n * lsl.d < lsl.n * data[i].d
                           \/ data[i].n * usl.d > usl.n * data[i].d}

\* C4: the defect count is the number of values strictly below LSL or
\* strictly above USL (a value equal to a limit is in-spec), and
\* dpmo = defect_count / n * 1,000,000 for every sample of length n >= 1.
C4_DefectCount ==
    (CapDone /\ ret.exc = "none" /\ Len(args.data) >= 1) =>
        LET bad == Cardinality(OutOfSpec(args.data, args.lsl, args.usl))
        IN /\ ret.defects = bad
           /\ ret.dpmo.k = "num"
           /\ ret.dpmo.n * Len(args.data) = bad * 1000000 * ret.dpmo.d

C4_Witness ==
    /\ CapDone /\ ret.exc = "none"
    /\ \E i, j \in 1..Len(args.data) :
          /\ args.data[i] \in {args.lsl, args.usl}
          /\ j \in OutOfSpec(args.data, args.lsl, args.usl)
    /\ ret.defects = Cardinality(OutOfSpec(args.data, args.lsl, args.usl))
    /\ ret.defects < Len(args.data)

ZeroVarianceInside ==
    /\ Len(args.data) >= 2
    /\ \A i \in 1..Len(args.data) : args.data[i] = args.data[1]
    /\ args.lsl.k = "num" /\ args.usl.k = "num"
    /\ args.lsl.n * args.data[1].d < args.data[1].n * args.lsl.d
    /\ args.data[1].n * args.usl.d < args.usl.n * args.data[1].d

\* C5: for a zero-variance sample whose value lies strictly inside
\* [LSL, USL] no exception is raised and cp = +inf, cpk = +inf, dpmo = 0.
C5_ZeroVariance ==
    (CapDone /\ ZeroVarianceInside) =>
        /\ ret.exc = "none"
        /\ ret.cp = QInf
        /\ ret.cpk = QInf
        /\ ret.dpmo = I(0)

\* C6: the capability computation fails with InsufficientDataError for
\* every sample of length < 2.
C6_InsufficientData ==
    (pc = "done" /\ op = "calculate_process_capability"
        /\ args.lsl.k = "num" /\ args.usl.k = "num" /\ Len(args.data) < 2) =>
        ret.exc = "InsufficientDataError"

\* C7: inverted limits or a missing limit never crash the capability
\* computation: a result is returned.
C7_NeverCrashes ==
    (pc = "done" /\ op = "calculate_process_capability" /\ Len(args.data) >= 2) =>
        ret.exc = "none"

PositiveStd(std) == std.k = "sqrt" /\ (std.v.k = "tiny" \/ Sign(std.v) > 0)

\* C26: for every sample with standard deviation > 0 and every pair of
\* limits, cp = (cpu + cpl) / 2 (as real numbers) and so cpk <= cp, likewise
\* ppk <= pp; for cp and cpk computed from the same sample interpret_cpk
\* never takes the branch cp < cpk that emits the 'Process is well-centered'
\* advice.
C26_CpkBelowCp ==
    (pc = "done" /\ op \in {"calculate_process_capability", "interpret_cpk"}
        /\ ret.exc = "none" /\ PositiveStd(ret.std)) =>
        /\ ret.cp.k = "surd" /\ ret.cpu.k = "surd" /\ ret.cpl.k = "surd"
        /\ FMul(I(2), Rat(ret.cp.c)) = FAdd(Rat(ret.cpu.c), Rat(ret.cpl.c))
        /\ ~QLt(ret.cp, ret.cpk)
        /\ ~QLt(ret.pp, ret.ppk)
        /\ op = "interpret_cpk" =>
              ret.cpk_interp.centering_advice # "well-centered"

\* an off-center sample: the centering advice is given, and it is the
\* off-center one
C26_Witness ==
    /\ pc = "done" /\ op = "interpret_cpk"
    /\ PositiveStd(ret.std)
    /\ QLt(ret.cpk, ret.cp)
    /\ ret.cpk_interp.centering_issue
    /\ ret.cpk_interp.centering_advice = "off-center"


\* C27: with inverted limits (LSL > USL) every sample value is counted as a
\* defect: for every non-empty sample defect_count = n, dpmo = 1,000,000,
\* yield = 0 and sigma_level = 0, whatever the sample values.
C27_InvertedLimits ==
    (pc = "done" /\ op = "calculate_process_capability"
        /\ args.lsl.k = "num" /\ args.usl.k = "num" /\ FGt(args.lsl, args.usl)
        /\ Len(args.data) >= 1) =>
        /\ ret.exc = "none"
        /\ ret.defects = Len(args.data)
        /\ ret.dpmo = I(1000000)
        /\ ret.yield = I(0)
        /\ ret.sigma_level = I(0)

\* inverted limits with a sample value below both and one between them
C27_Witness ==
    /\ pc = "done" /\ op = "calculate_process_capability"
    /\ args.lsl.k = "num" /\ args.usl.k = "num" /\ FGt(args.lsl, args.usl)
    /\ \E i, j \in 1..Len(args.data) :
          /\ FLt(args.data[i], args.usl)
          /\ FGt(args.data[j], args.usl) /\ FLt(args.data[j], args.lsl)
    /\ ret.defects = Len(args.data)
    /\ ret.sigma_level = I(0)

----------------------------------------------------------------------------
(* Western Electric rules *)

\* range(len(data) - (w - 1)) as a sequence
Starts(data, w) ==
    [j \in 1..(IF Len(data) >= w THEN Len(data) - w + 1 ELSE 0) |-> j - 1]

\* sum(...) over a boolean series
PySum(flags) == Cardinality({j \in 1..Len(flags) : flags[j]})

\* the violations a loop appends: one per window start that hits, in order
Reports(rule, w, hits) ==
    [j \in 1..Len(hits) |-> [rule |-> rule, point |-> hits[j] + w]]

\* the mutant: only points above the upper zone are counted
Rule2Violations_upper(data, zone_a_upper, zone_a_lower) ==
    LET Beyond(x) == FGt(x, zone_a_upper)
        Hit(i) == PySum([j \in 1..3 |-> Beyond(data[i + j])]) >= 2
    IN Reports(2, 3, SelectSeq(Starts(data, 3), Hit))

\* Rule 2: 2 out of 3 consecutive points in Zone A or beyond
Rule2Violations(data, zone_a_upper, zone_a_lower) ==
    LET Beyond(x) == FGt(x, zone_a_upper) \/ FLt(x, zone_a_lower)
        Hit(i) == PySum([j \in 1..3 |-> Beyond(data[i + j])]) >= 2
    IN Reports(2, 3, SelectSeq(Starts(data, 3), Hit))

\* the mutant: the two sides are added together
Rule3Violations_either(data, zone_b_upper, zone_b_lower) ==
    LET Beyond(x) == FGt(x, zone_b_upper) \/ FLt(x, zone_b_lower)
        Hit(i) == PySum([j \in 1..5 |-> Beyond(data[i + j])]) >= 4
    IN Reports(3, 5, SelectSeq(Starts(data, 5), Hit))

\* Rule 3: 4 out of 5 consecutive points in Zone B or beyond (same side)
Rule3Violations(data, zone_b_upper, zone_b_lower) ==
    LET Upper(x) == FGt(x, zone_b_upper)
        Lower(x) == FLt(x, zone_b_lower)
        Hit(i) == \/ PySum([j \in 1..5 |-> Upper(data[i + j])]) >= 4
                  \/ PySum([j \in 1..5 |-> Lower(data[i + j])]) >= 4
    IN Reports(3, 5, SelectSeq(Starts(data, 5), Hit))

\* the mutant: a run of 7 is taken for a run of 8
Rule4Violations_seven(data, mean) ==
    LET Above(x) == FGt(x, mean)
        Below(x) == FLt(x, mean)
        Hit(i) == \/ \A j \in 1..7 : Above(data[i + j])
                  \/ \A j \in 1..7 : Below(data[i + j])
    IN Reports(4, 8, SelectSeq(Starts(data, 7), Hit))

\* the mutant: a point on the center line continues the run
Rule4Violations_nonstrict(data, mean) ==
    LET Above(x) == FGe(x, mean)
        Below(x) == FLe(x, mean)
        Hit(i) == \/ \A j \in 1..8 : Above(data[i + j])
                  \/ \A j \in 1..8 : Below(data[i + j])
    IN Reports(4, 8, SelectSeq(Starts(data, 8), Hit))

\* the mutant: a run is reported once, at its first full window
Rule4Violations_once(data, mean) ==
    LET Above(x) == FGt(x, mean)
        Below(x) == FLt(x, mean)
        Hit(i) == \/ \A j \in 1..8 : Above(data[i + j])
                  \/ \A j \in 1..8 : Below(data[i + j])
        First(i) == Hit(i) /\ (i = 0 \/ ~Hit(i - 1))
    IN Reports(4, 8, SelectSeq(Starts(data, 8), First))

\* Rule 4: 8 consecutive points on same side of mean
Rule4Violations(data, mean) ==
    LET Above(x) == FGt(x, mean)
        Below(x) == FLt(x, mean)
        Hit(i) == \/ \A j \in 1..8 : Above(data[i + j])
                  \/ \A j \in 1..8 : Below(data[i + j])
    IN Reports(4, 8, SelectSeq(Starts(data, 8), Hit))

\* The violations, as [rule, point] records: point is the number the
\* message prints, i + 3, i + 5 or i + 8 for the window starting at i (from
\* 0), which is the position of the window's last point counted from 1.
\* The lcl argument is never read.
check_western_electric_rules(data, mean, ucl, lcl) ==
    LET sigma == NpDiv(FSub(ucl, mean), I(3))
        zone_a_upper == FAdd(mean, FMul(I(2), sigma))
        zone_a_lower == FSub(mean, FMul(I(2), sigma))
        zone_b_upper == FAdd(mean, sigma)
        zone_b_lower == FSub(mean, sigma)
    IN Rule2Violations(data, zone_a_upper, zone_a_lower)
          \o Rule3Violations(data, zone_b_upper, zone_b_lower)
          \o Rule4Violations(data, mean)

MaxShort == 5
MaxLong == 9

\* one value per zone on each side of a center of 0 or 1/2
ZoneValues == {I(x) : x \in {-2, -1, 0, 1, 2}}
SideValues == {I(x) : x \in {-1, 0, 1}}
Centers == {I(0), Num(1, 2)}
LimitOffsets == {I(0), I(2), I(3)}

WeCall(data, mean, off) ==
    [data |-> data, mean |-> mean, ucl |-> FAdd(mean, off), lcl |-> FSub(mean, off)]

\* short samples over every zone, with every center and limit; long samples
\* over the sides of a center of 0
InitWE ==
    /\ pc = "call"
    /\ op = "none"
    /\ \/ \E m \in 0..MaxShort : \E data \in [1..m -> ZoneValues] :
            \E mean \in Centers, off \in LimitOffsets :
                args = WeCall(data, mean, off)
       \/ \E m \in (MaxShort + 1)..MaxLong : \E data \in [1..m -> SideValues] :
            args = WeCall(data, I(0), I(2))
    /\ ret = [violations |-> <<>>]

CheckWesternElectricRules ==
    /\ pc = "call"
    /\ pc' = "done"
    /\ op' = "check_western_electric_rules"
    /\ ret' = [violations |->
                  check_western_electric_rules(args.data, args.mean, args.ucl, args.lcl)]
    /\ UNCHANGED args

NextWE == CheckWesternElectricRules

SpecWE == InitWE /\ [][NextWE]_vars

----------------------------------------------------------------------------
(* Claims about the Western Electric rules *)

WeDone == pc = "done" /\ op = "check_western_electric_rules"

RuleReports(rule) == SelectSeq(ret.violations, LAMBDA r : r.rule = rule)

\* how many reports of the rule carry the point number p
ReportsAt(rule, p) ==
    Cardinality({j \in 1..Len(ret.violations) :
                    ret.violations[j] = [rule |-> rule, point |-> p]})

\* 0-based index of the point whose number, counted from 1, is p
ZeroBased(p) == p - 1

EightAboveOneBelow ==
    /\ Len(args.data) = 9
    /\ \A i \in 1..8 : args.data[i].n * args.mean.d > args.mean.n * args.data[i].d
    /\ args.data[9].n * args.mean.d < args.mean.n * args.data[9].d

\* C8: for 8 points above the center line followed by 1 point below it,
\* exactly one Rule-4 violation is reported, anchored at the last point of
\* the triggering window, the point of 0-based index 7.
C8_Rule4Anchor ==
    (WeDone /\ EightAboveOneBelow) =>
        /\ Len(RuleReports(4)) = 1
        /\ ZeroBased(RuleReports(4)[1].point) = 7

C8_Witness ==
    /\ WeDone /\ EightAboveOneBelow
    /\ RuleReports(4) = <<[rule |-> 4, point |-> 8]>>

\* x lies more than m/3 of the distance from the center to the upper limit
\* above the center: 3 * (x - mean) > m * (ucl - mean), in integers over
\* the common denominator of x, mean and ucl
Scaled(x) == 3 * (x.n * args.mean.d - args.mean.n * x.d) * args.ucl.d
Reach(m) == m * (args.ucl.n * args.mean.d - args.mean.n * args.ucl.d)
AboveBy(x, m) == Scaled(x) > x.d * Reach(m)
BelowBy(x, m) == Scaled(x) < -(x.d * Reach(m))

\* the points of the w-point window whose last point is number p
WindowAt(p, w) == (p - w + 1)..p

\* C9: for every window of 3 consecutive points a Rule-2 violation is
\* reported, at the window's last point, if and only if at least 2 of its
\* points lie strictly beyond 2 sigma from the center, above and below
\* counted together, where sigma = (UCL - center) / 3.
C9_Rule2 ==
    WeDone =>
        /\ \A p \in 3..Len(args.data) :
              ReportsAt(2, p) =
                IF Cardinality({j \in WindowAt(p, 3) :
                        AboveBy(args.data[j], 2) \/ BelowBy(args.data[j], 2)}) >= 2
                THEN 1 ELSE 0
        /\ \A j \in 1..Len(ret.violations) :
              ret.violations[j].rule = 2 => ret.violations[j].point \in 3..Len(args.data)

C9_Witness ==
    /\ WeDone
    /\ \E p \in 3..Len(args.data) :
          /\ Cardinality({j \in WindowAt(p, 3) : AboveBy(args.data[j], 2)}) = 1
          /\ Cardinality({j \in WindowAt(p, 3) : BelowBy(args.data[j], 2)}) = 1
          /\ ReportsAt(2, p) = 1

\* C10: for every window of 5 consecutive points a Rule-3 violation is
\* reported if and only if at least 4 of its points lie strictly beyond
\* 1 sigma on the same side of the center; opposite sides are never added.
C10_Rule3 ==
    WeDone =>
        /\ \A p \in 5..Len(args.data) :
              ReportsAt(3, p) =
                IF \/ Cardinality({j \in WindowAt(p, 5) : AboveBy(args.data[j], 1)}) >= 4
                   \/ Cardinality({j \in WindowAt(p, 5) : BelowBy(args.data[j], 1)}) >= 4
                THEN 1 ELSE 0
        /\ \A j \in 1..Len(ret.violations) :
              ret.violations[j].rule = 3 => ret.violations[j].point \in 5..Len(args.data)

\* a window with 4 points beyond 1 sigma, 2 on each side, and no report;
\* and a window that is reported
C10_Witness ==
    /\ WeDone
    /\ \E p \in 5..Len(args.data) :
          /\ Cardinality({j \in WindowAt(p, 5) : AboveBy(args.data[j], 1)}) = 4
          /\ ReportsAt(3, p) = 1

\* C11: a Rule-4 violation is reported for a window of 8 consecutive points
\* if and only if all 8 points are strictly on the same side of the center
\* (a point on the center breaks the run); a sequence of fewer than 8 points
\* yields a result without a Rule-4 finding, one of fewer than 5 points none
\* of Rule 3, one of fewer than 3 points none of Rule 2.
C11_Rule4 ==
    WeDone =>
        /\ \A p \in 8..Len(args.data) :
              ReportsAt(4, p) =
                IF \/ \A j \in WindowAt(p, 8) : AboveBy(args.data[j], 0)
                   \/ \A j \in WindowAt(p, 8) : BelowBy(args.data[j], 0)
                THEN 1 ELSE 0
        /\ \A j \in 1..Len(ret.violations) :
              ret.violations[j].rule = 4 => ret.violations[j].point \in 8..Len(args.data)
        /\ Len(args.data) < 8 => RuleReports(4) = <<>>
        /\ Len(args.data) < 5 => RuleReports(3) = <<>>
        /\ Len(args.data) < 3 => RuleReports(2) = <<>>

\* a window of 7 points on one side and 1 point on the center, not
\* reported, next to a window that is reported
C11_Witness ==
    /\ WeDone
    /\ \E p \in 8..Len(args.data) :
          /\ Cardinality({j \in WindowAt(p, 8) : AboveBy(args.data[j], 0)}) = 7
          /\ \E j \in WindowAt(p, 8) : args.data[j] = args.mean
          /\ ReportsAt(4, p) = 0
    /\ \E q \in 8..Len(args.data) : ReportsAt(4, q) = 1

\* the points a..b are a maximal run on one side of the center
SameSide(a, b) ==
    \/ \A j \in a..b : AboveBy(args.data[j], 0)
    \/ \A j \in a..b : BelowBy(args.data[j], 0)
MaximalRun(a, b) ==
    /\ a <= b /\ SameSide(a, b)
    /\ a = 1 \/ ~SameSide(a - 1, b)
    /\ b = Len(args.data) \/ ~SameSide(a, b + 1)

\* the last-point numbers of the Rule-4 reports that fall in a..b
Rule4Points(a, b) ==
    {ret.violations[j].point : j \in {i \in 1..Len(ret.violations) :
        ret.violations[i].rule = 4 /\ ret.violations[i].point \in a..b}}
Rule4Count(a, b) ==
    Cardinality({i \in 1..Len(ret.violations) :
        ret.violations[i].rule = 4 /\ ret.violations[i].point \in a..b})

\* C12: reports are not deduplicated: a maximal run of k >= 8 consecutive
\* points strictly on one side of the center produces exactly k - 7 Rule-4
\* reports, one per 8-point window, each at a distinct last point.
C12_NoDedup ==
    WeDone =>
        \A a, b \in 1..Len(args.data) :
            (MaximalRun(a, b) /\ b - a + 1 >= 8) =>
                /\ Rule4Count(a + 7, b) = b - a + 1 - 7
                /\ Cardinality(Rule4Points(a + 7, b)) = b - a + 1 - 7
                /\ Rule4Points(a + 7, b) = (a + 7)..b

\* a run of 9 with its 2 reports
C12_Witness ==
    /\ WeDone
    /\ \E a, b \in 1..Len(args.data) :
          /\ MaximalRun(a, b) /\ b - a + 1 >= 9
          /\ Rule4Count(a + 7, b) >= 2

----------------------------------------------------------------------------
(* Control charts *)

FAbs(a) ==
    CASE a.k \in Finite /\ a.n < 0 -> FNeg(a)
      [] a.k = "ninf" -> PosInf
      [] OTHER -> a

\* data.diff().abs() without its first entry, which is nan and which
\* mean() skips
MovingRange(data) ==
    [j \in 1..(IF Len(data) >= 1 THEN Len(data) - 1 ELSE 0) |->
        FAbs(FSub(data[j + 1], data[j]))]

NoChart == [k |-> "none"]

\* create_control_chart: the I-MR limits; any other chart type falls off
\* the end of the function, which returns None
create_control_chart(data, chart_type) ==
    IF chart_type = "I-MR"
    THEN LET mean == Mean(data)
             mr_mean == Mean(MovingRange(data))
         IN [k |-> "dict", mean |-> mean,
             ucl |-> FAdd(mean, FMul(Num(133, 50), mr_mean)),
             lcl |-> FSub(mean, FMul(Num(133, 50), mr_mean)),
             mr_mean |-> mr_mean,
             ucl_mr |-> FMul(Num(3267, 1000), mr_mean),
             moving_range |-> (IF data = <<>> THEN <<>> ELSE <<NaN>> \o MovingRange(data))]
    ELSE NoChart

\* (data > ucl) | (data < lcl): one flag per point
OutOfControl(data, ucl, lcl) ==
    [j \in 1..Len(data) |-> FGt(data[j], ucl) \/ FLt(data[j], lcl)]

\* the flagged positions, from 0, as a list
FlaggedList(flags) == SelectSeq([j \in 1..Len(flags) |-> j - 1], LAMBDA i : flags[i + 1])

OocList(v) == [t |-> "list", v |-> v]
OocInt(v) == [t |-> "int", v |-> v]
OocSeries(v) == [t |-> "series", v |-> v]

ValueError == [exc |-> "ValueError"]

\* interpret_control_chart.  out_of_control_points is a list (its length is
\* the count), an int (the count) or, as the Measure page passes it, a
\* boolean Series: then ooc_count is the Series itself, ooc_count == 0 is
\* a Series, and its truth value in the if raises ValueError.
\* ooc_count <= total_points * 0.05 is 20 * ooc_count <= total_points.
interpret_control_chart(data, ucl, lcl, mean, out_of_control_points) ==
    IF out_of_control_points.t = "series" THEN ValueError
    ELSE
    LET total_points == Len(data)
        ooc_count == IF out_of_control_points.t = "list"
                     THEN Len(out_of_control_points.v) ELSE out_of_control_points.v
        status == IF ooc_count = 0 THEN "In Statistical Control"
                  ELSE IF 20 * ooc_count <= total_points
                       THEN "Mostly Stable with Few Exceptions"
                  ELSE "Out of Control"
    IN [exc |-> "none", status |-> status, ooc_count |-> ooc_count,
        total_points |-> total_points,
        runs_detected |-> check_western_electric_rules(data, mean, ucl, lcl)]

MaxChart == 5
ManyPoints == 20

ChartValues == {I(0), I(1), I(3), Tenth}
ChartTypes == {"I-MR", "Xbar-R"}

\* short samples over the chart values, and long samples of zeros with one
\* high point
InitChart ==
    /\ pc = "call"
    /\ op = "none"
    /\ \/ \E m \in 0..MaxChart : \E data \in [1..m -> ChartValues] :
            args = [data |-> data]
       \/ \E m \in ManyPoints..(ManyPoints + 1) : \E high \in 1..m :
            args = [data |-> [j \in 1..m |-> IF j = high THEN I(3) ELSE I(0)]]
    /\ ret = [chart |-> NoChart, flags |-> <<>>, interp |-> [exc |-> "pending"]]

CreateControlChart ==
    /\ pc = "call"
    /\ \E chart_type \in ChartTypes :
          LET chart == create_control_chart(args.data, chart_type)
          IN /\ ret' = [ret EXCEPT !.chart = chart]
             /\ pc' = IF chart = NoChart THEN "done" ELSE "chart"
    /\ op' = "create_control_chart"
    /\ UNCHANGED args

\* a caller flags the points outside the limits of the chart and passes
\* them to interpret_control_chart as a list of positions or as a count
InterpretControlChart ==
    /\ pc = "chart"
    /\ LET flags == OutOfControl(args.data, ret.chart.ucl, ret.chart.lcl)
       IN \E ooc \in {OocList(FlaggedList(flags)), OocInt(PySum(flags))} :
            ret' = [ret EXCEPT
                      !.flags = flags,
                      !.interp = interpret_control_chart(args.data, ret.chart.ucl,
                                     ret.chart.lcl, ret.chart.mean, ooc)]
    /\ pc' = "done"
    /\ op' = "interpret_control_chart"
    /\ UNCHANGED args

\* complete_dmaic_system.py, Measure page, process stability analysis: the
\* limits, the per-point flags, and the interpretation of the flags
MeasureStabilityAnalysis ==
    /\ pc = "call"
    /\ LET mean == Mean(args.data)
           mr_mean == Mean(MovingRange(args.data))
           ucl == FAdd(mean, FMul(Num(133, 50), mr_mean))
           lcl == FSub(mean, FMul(Num(133, 50), mr_mean))
           out_of_control == OutOfControl(args.data, ucl, lcl)
       IN ret' = [chart |-> [k |-> "dict", mean |-> mean, ucl |-> ucl, lcl |-> lcl,
                             mr_mean |-> mr_mean],
                  flags |-> out_of_control,
                  interp |-> interpret_control_chart(args.data, ucl, lcl, mean,
                                 OocSeries(out_of_control))]
    /\ pc' = "done"
    /\ op' = "measure"
    /\ UNCHANGED args

NextChart ==
    \/ CreateControlChart
    \/ InterpretControlChart
    \/ MeasureStabilityAnalysis

SpecChart == InitChart /\ [][NextChart]_vars

----------------------------------------------------------------------------
(* Claims about the control charts *)

Interpreted == pc = "done" /\ op \in {"interpret_control_chart", "measure"}

StatusOf(count, total) ==
    IF count = 0 THEN "In Statistical Control"
    ELSE IF 20 * count <= total THEN "Mostly Stable with Few Exceptions"
    ELSE "Out of Control"

\* C13: the control-chart status follows the number of Rule-1
\* out-of-control points only: none is 'in control', at most 5% of the
\* points is 'mostly stable', more is 'out of control'; also for the
\* per-point flags the Measure page passes.
C13_ChartStatus ==
    (Interpreted /\ Len(args.data) >= 1) =>
        /\ ret.interp.exc = "none"
        /\ ret.interp.status = StatusOf(PySum(ret.flags), Len(args.data))

\* C14: for an I-MR chart over a constant sequence of length >= 2 the
\* limits collapse to UCL = LCL = center, no point is flagged out of
\* control and no Western Electric Rule 2/3/4 violation is reported.
C14_ConstantChart ==
    (pc = "done" /\ op = "interpret_control_chart"
        /\ IsCopies(args.data) /\ Len(args.data) >= 2) =>
        /\ ret.chart.ucl = ret.chart.mean
        /\ ret.chart.lcl = ret.chart.mean
        /\ PySum(ret.flags) = 0
        /\ ret.interp.runs_detected = <<>>

----------------------------------------------------------------------------
(* P-chart *)

\* df[defect_col] / df[opportunity_col], row by row
Proportions(defects, opps) ==
    [j \in 1..Len(defects) |-> NpDiv(I(defects[j]), I(opps[j]))]

\* np.sqrt(x) and 3 times it, kept as the pair <<3, x>>; nan for x < 0
ThreeSqrt(x) == IF x.k = "num" /\ x.n >= 0 THEN [k |-> "sqrt3", v |-> x]
                ELSE [k |-> "nan", v |-> I(0)]

\* max(0, p_bar - 3 * sqrt(v)): 0 unless the difference is greater than 0,
\* that is p_bar > 0 and p_bar^2 > 9 v
LowerLimit(p_bar, spread) ==
    IF spread.k = "sqrt3" /\ FGt(p_bar, I(0))
          /\ FGt(FMul(p_bar, p_bar), FMul(I(9), spread.v))
    THEN [k |-> "minus", c |-> p_bar, s |-> spread]
    ELSE [k |-> "zero", c |-> I(0), s |-> spread]

\* the P-chart of the discrete analysis: center line p_bar, the mean of the
\* rows' proportions, and limits p_bar +- 3 sqrt(p_bar (1 - p_bar) / n_bar)
PChart(defects, opps) ==
    LET proportion == Proportions(defects, opps)
        p_bar == Mean(proportion)
        n_bar == Mean([j \in 1..Len(opps) |-> I(opps[j])])
        spread == ThreeSqrt(NpDiv(FMul(p_bar, FSub(I(1), p_bar)), n_bar))
    IN [proportion |-> proportion, p_bar |-> p_bar, n_bar |-> n_bar,
        ucl_p |-> [k |-> "plus", c |-> p_bar, s |-> spread],
        lcl_p |-> LowerLimit(p_bar, spread)]

MaxRows == 3
MaxDefects == 2
MaxOpps == 3

\* rows of a defect count and a positive opportunity count
InitPChart ==
    /\ pc = "call"
    /\ op = "none"
    /\ \E m \in 1..MaxRows :
          \E defects \in [1..m -> 0..MaxDefects], opps \in [1..m -> 1..MaxOpps] :
             args = [defects |-> defects, opps |-> opps]
    /\ ret = [p_bar |-> None]

\* six_sigma_app.py, discrete analysis
DiscretePChartApp ==
    /\ pc = "call"
    /\ pc' = "done"
    /\ op' = "app"
    /\ ret' = PChart(args.defects, args.opps)
    /\ UNCHANGED args

\* six_sigma_dmaic_mentor.py, Measure phase, discrete data
MeasurePChartMentor ==
    /\ pc = "call"
    /\ pc' = "done"
    /\ op' = "mentor"
    /\ ret' = PChart(args.defects, args.opps)
    /\ UNCHANGED args

NextPChart ==
    \/ DiscretePChartApp
    \/ MeasurePChartMentor

SpecPChart == InitPChart /\ [][NextPChart]_vars

----------------------------------------------------------------------------
(* Claims about the P-chart *)

RECURSIVE Total(_)
Total(s) == IF s = <<>> THEN 0 ELSE Head(s) + Total(Tail(s))

\* C15: the P-chart center line is the pooled proportion
\* sum(defects) / sum(opportunities), also for rows with different
\* opportunity counts, not the mean of the per-row proportions.
C15_PooledCenter ==
    pc = "done" =>
        /\ ret.p_bar.k = "num"
        /\ ret.p_bar.n * Total(args.opps) = Total(args.defects) * ret.p_bar.d

----------------------------------------------------------------------------
(* What-if scenarios *)

Band(timeline, effort, difficulty) ==
    [timeline |-> timeline, effort |-> effort, difficulty |-> difficulty]

\* the mutant: the upper bounds of the bands are exclusive
Timeline_exclusive(sigma_improvement) ==
    IF FLt(sigma_improvement, Num(1, 2))
    THEN Band("2-3 months", "Low - Quick wins, basic improvements", "Easy")
    ELSE IF FLt(sigma_improvement, I(1))
    THEN Band("3-6 months", "Medium - Standard DMAIC project", "Moderate")
    ELSE IF FLt(sigma_improvement, Num(3, 2))
    THEN Band("6-12 months", "High - Major process redesign likely needed", "Challenging")
    ELSE Band("12-18 months", "Very High - Fundamental changes required", "Very Challenging")

\* the if / elif chain on sigma_improvement
Timeline(sigma_improvement) ==
    IF FLe(sigma_improvement, Num(1, 2))
    THEN Band("2-3 months", "Low - Quick wins, basic improvements", "Easy")
    ELSE IF FLe(sigma_improvement, I(1))
    THEN Band("3-6 months", "Medium - Standard DMAIC project", "Moderate")
    ELSE IF FLe(sigma_improvement, Num(3, 2))
    THEN Band("6-12 months", "High - Major process redesign likely needed", "Challenging")
    ELSE Band("12-18 months", "Very High - Fundamental changes required", "Very Challenging")

\* calculate_what_if_scenarios.  target_dpmo is a numpy float64, so the
\* division by current_dpmo is numpy's: a zero current_dpmo gives -inf, +inf
\* or nan with a RuntimeWarning, not an exception.  There is no check of
\* target_sigma against current_sigma.
calculate_what_if_scenarios(current_sigma, current_dpmo, target_sigma) ==
    LET target_dpmo ==
            FMul(FSub(I(1), NormCdf(FSub(target_sigma, Num(3, 2)))), I(1000000))
        improvement_pct ==
            FMul(NpDiv(FSub(current_dpmo, target_dpmo), current_dpmo), I(100))
        cost_of_poor_quality_current == NpDiv(current_dpmo, I(10000))
        cost_of_poor_quality_target == NpDiv(target_dpmo, I(10000))
        savings_per_million ==
            FSub(cost_of_poor_quality_current, cost_of_poor_quality_target)
        sigma_improvement == FSub(target_sigma, current_sigma)
        band == Timeline(sigma_improvement)
    IN [exc |-> "none",
        current_sigma |-> current_sigma,
        target_sigma |-> target_sigma,
        current_dpmo |-> current_dpmo,
        target_dpmo |-> target_dpmo,
        improvement_pct |-> improvement_pct,
        estimated_timeline |-> band.timeline,
        effort_level |-> band.effort,
        difficulty |-> band.difficulty,
        savings_per_million_opportunities |-> savings_per_million]

\* sigma levels by quarters and by halves from 0 to 6; the baseline sigma
\* of the Measure page can also be +inf
CurrentSigmas == {Num(q, 4) : q \in 0..24} \cup {PosInf}
TargetSigmas == {Num(h, 2) : h \in 0..12}
CurrentDpmos == {I(0), I(233), I(6210), I(66807), I(308538), I(1000000)}

InitWhatIf ==
    /\ pc = "call"
    /\ op = "none"
    /\ \E current_sigma \in CurrentSigmas, current_dpmo \in CurrentDpmos,
          target_sigma \in TargetSigmas :
            args = [current_sigma |-> FNorm(current_sigma),
                    current_dpmo |-> current_dpmo,
                    target_sigma |-> FNorm(target_sigma)]
    /\ ret = [exc |-> "pending"]

CalculateWhatIfScenarios ==
    /\ pc = "call"
    /\ pc' = "done"
    /\ op' = "calculate_what_if_scenarios"
    /\ ret' = calculate_what_if_scenarios(args.current_sigma, args.current_dpmo,
                                          args.target_sigma)
    /\ UNCHANGED args

NextWhatIf == CalculateWhatIfScenarios

SpecWhatIf == InitWhatIf /\ [][NextWhatIf]_vars

----------------------------------------------------------------------------
(* Claims about the what-if scenarios *)

WhatIfDone == pc = "done" /\ op = "calculate_what_if_scenarios"

\* C16: for every call with target_sigma < current_sigma the projection
\* signals InvalidTargetError and returns no scenario.
C16_InvalidTarget ==
    (WhatIfDone /\ args.current_sigma.k = "num"
        /\ FLt(args.target_sigma, args.current_sigma)) =>
        ret.exc = "InvalidTargetError"

\* C17: when current_dpmo = 0 the projection returns improvement_pct = 0 or
\* signals a defined edge case; it never returns an infinite or undefined
\* improvement_pct and never fails with a division by zero.
C17_ZeroDpmo ==
    (WhatIfDone /\ args.current_dpmo = I(0)) =>
        \/ ret.exc = "none" /\ ret.improvement_pct = I(0)
        \/ ret.exc \in {"DivisionByZeroError", "InvalidTargetError"}

\* target_sigma - current_sigma in quarters of a sigma
QuartersUp == (4 * args.target_sigma.n) \div args.target_sigma.d
                - (4 * args.current_sigma.n) \div args.current_sigma.d

\* C18: the timeline and effort are a fixed function of
\* d = target_sigma - current_sigma with inclusive upper bounds: for d >= 0,
\* d <= 0.5 gives '2-3 months' (low), 0.5 < d <= 1.0 '3-6 months' (medium),
\* 1.0 < d <= 1.5 '6-12 months' (high), d > 1.5 '12-18 months' (very high).
C18_TimelineBands ==
    (WhatIfDone /\ args.current_sigma.k = "num" /\ QuartersUp >= 0) =>
        /\ ret.exc = "none"
        /\ ret.estimated_timeline =
              (CASE QuartersUp <= 2 -> "2-3 months"
                 [] QuartersUp \in 3..4 -> "3-6 months"
                 [] QuartersUp \in 5..6 -> "6-12 months"
                 [] OTHER -> "12-18 months")
        /\ ret.effort_level =
              (CASE QuartersUp <= 2 -> "Low - Quick wins, basic improvements"
                 [] QuartersUp \in 3..4 -> "Medium - Standard DMAIC project"
                 [] QuartersUp \in 5..6 -> "High - Major process redesign likely needed"
                 [] OTHER -> "Very High - Fundamental changes required")

\* an improvement of exactly 1.0 sigma, in the '3-6 months' band
C18_Witness ==
    /\ WhatIfDone /\ args.current_sigma.k = "num"
    /\ QuartersUp = 4
    /\ ret.estimated_timeline = "3-6 months"

----------------------------------------------------------------------------
(* Financial impact *)

\* the mutant: the dpmo is taken for a percentage
DefectsPerYear_percent(volume_per_year, dpmo) ==
    FMul(volume_per_year, NpDiv(dpmo, I(100)))

\* volume_per_year * (dpmo / 1000000)
DefectsPerYear(volume_per_year, dpmo) ==
    FMul(volume_per_year, NpDiv(dpmo, I(1000000)))

\* the mutant: zero savings are divided by
Payback_unguarded(investment, savings) ==
    IF FGe(savings, I(0)) THEN FMul(NpDiv(investment, savings), I(12)) ELSE I(999)

\* the mutant: the payback in years
Payback_years(investment, savings) ==
    IF FGt(savings, I(0)) THEN NpDiv(investment, savings) ELSE I(999)

\* (investment / savings) * 12 if savings > 0 else 999
Payback(investment, savings) ==
    IF FGt(savings, I(0)) THEN FMul(NpDiv(investment, savings), I(12)) ELSE I(999)

\* ((savings - investment) / investment) * 100
Roi(investment, savings) ==
    FMul(NpDiv(FSub(savings, investment), investment), I(100))

\* The 5-year net present value at a 10% discount rate is
\* savings * (1/1.1 + ... + 1/1.1^5) - investment, and the sum is
\* 10 * (11^5 - 10^5) / 11^5 = 610510 / 161051.  The value is kept as the
\* pair of its terms; Npv5Gt(npv, t) is npv > t, that is
\* savings > (t + investment) * 161051 / 610510, computed on the whole and
\* fractional parts of the savings.
Npv5(savings, investment) == [k |-> "npv", savings |-> savings, investment |-> investment]

Npv5Gt(npv, t) ==
    LET pow == 161051
        den == pow - 100000
        m == (t + npv.investment.n) \div 10
        q == 2 * m + (m * (pow - 2 * den)) \div den
        r == (m * (pow - 2 * den)) % den
        w == npv.savings.n \div npv.savings.d
        f == npv.savings.n % npv.savings.d
    IN w > q \/ (w = q /\ f * den > r * npv.savings.d)

interpret_financial_results(roi, payback_months, npv) ==
    [roi_rating |->
        (CASE FGe(roi, I(300)) -> "Outstanding"
           [] FGe(roi, I(200)) -> "Excellent"
           [] FGe(roi, I(100)) -> "Very Good"
           [] FGe(roi, I(50)) -> "Good"
           [] FGe(roi, I(0)) -> "Marginal"
           [] OTHER -> "Negative"),
     payback_rating |->
        (CASE FLe(payback_months, I(6)) -> "Very Fast"
           [] FLe(payback_months, I(12)) -> "Fast"
           [] FLe(payback_months, I(24)) -> "Moderate"
           [] OTHER -> "Slow"),
     npv_rating |->
        (CASE Npv5Gt(npv, 100000) -> "Highly Positive"
           [] Npv5Gt(npv, 0) -> "Positive"
           [] OTHER -> "Negative"),
     overall_recommendation |->
        (IF FGe(roi, I(100)) /\ FLe(payback_months, I(12))
         THEN "APPROVED - Strong Business Case"
         ELSE IF FGe(roi, I(50))
         THEN "CONDITIONAL APPROVAL - Review strategic value"
         ELSE "NOT RECOMMENDED - Weak financial case")]

\* calculate_cost_benefit_analysis; the performances are dicts read at
\* their 'dpmo' key.  Savings per avoided defect: 30% scrapped at 50, 60%
\* reworked at 30, 10% warranty at 100.  The project costs sum to 90000.
calculate_cost_benefit_analysis(current_dpmo, improved_dpmo, volume_per_year) ==
    LET current_defects_per_year == DefectsPerYear(volume_per_year, current_dpmo)
        improved_defects_per_year == DefectsPerYear(volume_per_year, improved_dpmo)
        defects_avoided == FSub(current_defects_per_year, improved_defects_per_year)
        scrap_savings == FMul(FMul(defects_avoided, I(50)), Num(3, 10))
        rework_savings == FMul(FMul(defects_avoided, I(30)), Num(6, 10))
        warranty_savings == FMul(FMul(defects_avoided, I(100)), Num(1, 10))
        total_annual_savings == FAdd(FAdd(scrap_savings, rework_savings), warranty_savings)
        total_investment == I(40000 + 20000 + 5000 + 10000 + 0 + 15000)
        roi == Roi(total_investment, total_annual_savings)
        payback_months == Payback(total_investment, total_annual_savings)
        npv == Npv5(total_annual_savings, total_investment)
    IN [exc |-> "none",
        current_defects_per_year |-> current_defects_per_year,
        improved_defects_per_year |-> improved_defects_per_year,
        defects_avoided |-> defects_avoided,
        scrap_savings |-> scrap_savings,
        rework_savings |-> rework_savings,
        warranty_savings |-> warranty_savings,
        total_annual_savings |-> total_annual_savings,
        total_investment |-> total_investment,
        roi_percent |-> roi,
        payback_months |-> payback_months,
        npv_5_year |-> npv,
        interpretation |-> interpret_financial_results(roi, payback_months, npv)]

\* six_sigma_app.py, calculate_financial_impact: 75 per avoided defect, an
\* investment of 50000
calculate_financial_impact(current_dpmo, target_dpmo, annual_volume) ==
    LET cost_per_defect == I(75)
        current_defects == DefectsPerYear(annual_volume, current_dpmo)
        target_defects == DefectsPerYear(annual_volume, target_dpmo)
        defects_avoided == FSub(current_defects, target_defects)
        annual_savings == FMul(defects_avoided, cost_per_defect)
        project_investment == I(50000)
        roi == IF FGt(project_investment, I(0))
               THEN Roi(project_investment, annual_savings) ELSE I(0)
        payback_months == Payback(project_investment, annual_savings)
    IN [exc |-> "none",
        total_annual_savings |-> annual_savings,
        defects_avoided |-> defects_avoided,
        total_investment |-> project_investment,
        roi_percent |-> roi,
        payback_months |-> payback_months]

FinDpmos == {I(0), I(233), I(6210), I(66807), I(500000), I(1000000)}
FinVolumes == {I(0), I(1000), I(50000), I(100000), I(1000000)}

InitFin ==
    /\ pc = "call"
    /\ op = "none"
    /\ \E current_dpmo \in FinDpmos, target_dpmo \in FinDpmos, volume \in FinVolumes :
          args = [current_dpmo |-> current_dpmo, target_dpmo |-> target_dpmo,
                  volume |-> volume]
    /\ ret = [exc |-> "pending"]

CalculateCostBenefitAnalysis ==
    /\ pc = "call"
    /\ pc' = "done"
    /\ op' = "calculate_cost_benefit_analysis"
    /\ ret' = calculate_cost_benefit_analysis(args.current_dpmo, args.target_dpmo,
                                              args.volume)
    /\ UNCHANGED args

CalculateFinancialImpact ==
    /\ pc = "call"
    /\ pc' = "done"
    /\ op' = "calculate_financial_impact"
    /\ ret' = calculate_financial_impact(args.current_dpmo, args.target_dpmo,
                                         args.volume)
    /\ UNCHANGED args

NextFin ==
    \/ CalculateCostBenefitAnalysis
    \/ CalculateFinancialImpact

SpecFin == InitFin /\ [][NextFin]_vars

----------------------------------------------------------------------------
(* Claims about the financial impact *)

FinDone == pc = "done"
              /\ op \in {"calculate_cost_benefit_analysis", "calculate_financial_impact"}

IsFiniteNonNeg(x) == x.k = "num" /\ x.n >= 0

\* C19: in both financial functions the payback is always defined:
\* total_investment / total_annual_savings * 12 when the annual savings are
\* > 0 and the sentinel 999 when they are <= 0 (target_dpmo >= current_dpmo
\* or zero volume included); no input causes a division by zero.
C19_Payback ==
    FinDone =>
        /\ ret.exc = "none"
        /\ ret.payback_months.k = "num"
        /\ IF ret.total_annual_savings.n > 0
           THEN FMul(ret.payback_months, ret.total_annual_savings)
                    = I(12 * ret.total_investment.n)
           ELSE ret.payback_months = I(999)

\* zero savings and the sentinel
C19_Witness ==
    /\ FinDone
    /\ args.volume = I(0) \/ args.target_dpmo = args.current_dpmo
    /\ ret.total_annual_savings = I(0)
    /\ ret.payback_months = I(999)

\* C20: for every input to the cost-benefit analysis with
\* total_annual_savings > total_investment, roi_pct and payback_months are
\* finite and non-negative; and defects_avoided =
\* annual_volume * (current_dpmo - target_dpmo) / 1,000,000 (597.7 for
\* current_dpmo = 6210, target_dpmo = 233, annual_volume = 100000).
C20_RoiFinite ==
    (pc = "done" /\ op = "calculate_cost_benefit_analysis") =>
        /\ FGt(ret.total_annual_savings, ret.total_investment) =>
              IsFiniteNonNeg(ret.roi_percent) /\ IsFiniteNonNeg(ret.payback_months)
        /\ ret.defects_avoided.k = "num"
        /\ ret.defects_avoided.n * 1000
              = (args.volume.n \div 1000) * (args.current_dpmo.n - args.target_dpmo.n)
                    * ret.defects_avoided.d
        /\ (args.current_dpmo = I(6210) /\ args.target_dpmo = I(233)
                /\ args.volume = I(100000)) => ret.defects_avoided = Num(5977, 10)

\* savings above the investment, with a positive return and payback
C20_Witness ==
    /\ pc = "done" /\ op = "calculate_cost_benefit_analysis"
    /\ FGt(ret.total_annual_savings, ret.total_investment)
    /\ FGt(ret.roi_percent, I(0)) /\ FGt(ret.payback_months, I(0))
    /\ ret.defects_avoided.n * 1000
          = (args.volume.n \div 1000) * (args.current_dpmo.n - args.target_dpmo.n)
                * ret.defects_avoided.d

\* C28: for every result of calculate_cost_benefit_analysis,
\* roi_percent >= 100 implies 0 < payback_months <= 12 (in fact <= 6), so
\* the overall recommendation is 'APPROVED - Strong Business Case' if and
\* only if roi_percent >= 100; and roi_percent >= 0 holds exactly when
\* 0 < payback_months <= 12.
C28_RoiPayback ==
    (pc = "done" /\ op = "calculate_cost_benefit_analysis") =>
        /\ FGe(ret.roi_percent, I(100)) =>
              FGt(ret.payback_months, I(0)) /\ FLe(ret.payback_months, I(6))
        /\ (ret.interpretation.overall_recommendation
                = "APPROVED - Strong Business Case")
              <=> FGe(ret.roi_percent, I(100))
        /\ FGe(ret.roi_percent, I(0))
              <=> (FGt(ret.payback_months, I(0)) /\ FLe(ret.payback_months, I(12)))

\* an approved project: a return of at least 100% paid back within 6 months
C28_Witness ==
    /\ pc = "done" /\ op = "calculate_cost_benefit_analysis"
    /\ FGe(ret.roi_percent, I(100))
    /\ ret.interpretation.overall_recommendation = "APPROVED - Strong Business Case"
    /\ FGt(ret.payback_months, I(0)) /\ FLe(ret.payback_months, I(6))

\* a positive return below 100%, paid back in 6 to 12 months
MarginalReturn ==
    /\ pc = "done" /\ op = "calculate_cost_benefit_analysis"
    /\ FGe(ret.roi_percent, I(0)) /\ FLt(ret.roi_percent, I(100))
    /\ FGt(ret.payback_months, I(6)) /\ FLe(ret.payback_months, I(12))

----------------------------------------------------------------------------
(* Normality assessment: check_normality of six_sigma_encyclopedia.py and   *)
(* the normality block of the Measure page of complete_dmaic_system.py.     *)
(* The sample is known by its length; what scipy's three tests return for   *)
(* it is an input.                                                          *)

\* if len(data) < 5000
ShapiroLimit == 5000

\* shapiro(data): scipy refuses a sample of fewer than 3 values; depending on
\* the scipy release it raises ValueError or returns (nan, nan).  Otherwise
\* it returns the pair the sample gives.
Shapiro(n, sw) ==
    IF n < 3 THEN {[exc |-> "ValueError", stat |-> NaN, p |-> NaN],
                   [exc |-> "none", stat |-> NaN, p |-> NaN]}
    ELSE {[exc |-> "none", stat |-> sw.stat, p |-> sw.p]}

\* a Python bool, or None
PyBool(b) == IF b THEN "True" ELSE "False"

\* shapiro_p > 0.05 if shapiro_p else None
ShapiroNormal(shapiro_p) ==
    IF Truthy(shapiro_p) THEN PyBool(FGt(shapiro_p, Num(5, 100))) ELSE "None"

\* the dictionary check_normality returns once the three tests have run;
\* sh is what the Shapiro-Wilk step left in (shapiro_stat, shapiro_p)
NormalityResult(ad, sh, ks) ==
    [exc |-> "none",
     anderson_stat |-> ad.statistic,
     anderson_critical |-> ad.critical,
     anderson_normal |-> PyBool(FLt(ad.statistic, ad.critical)),
     shapiro_stat |-> sh.stat,
     shapiro_p |-> sh.p,
     shapiro_normal |-> ShapiroNormal(sh.p),
     ks_stat |-> ks.stat,
     ks_p |-> ks.p,
     ks_normal |-> PyBool(FGt(ks.p, Num(5, 100)))]

\* the set of outcomes of check_normality(data) for a sample of length n on
\* which anderson returns ad, shapiro would return sw and kstest returns ks
check_normality(n, ad, sw, ks) ==
    IF n < ShapiroLimit
    THEN {IF sh.exc # "none" THEN [exc |-> sh.exc]
          ELSE NormalityResult(ad, sh, ks) : sh \in Shapiro(n, sw)}
    ELSE {NormalityResult(ad, [stat |-> None, p |-> None], ks)}

\* complete_dmaic_system.py neither defines nor imports check_normality: the
\* call of line 1450 raises NameError and nothing of the block is shown
MeasureNormality(n, ad, sw, ks) == [exc |-> "NameError"]

SampleLengths == {2, 3, 30, ShapiroLimit - 1, ShapiroLimit, ShapiroLimit + 1, 10000}
AndersonStats == {Num(3, 10), Num(787, 1000), I(2), NaN}
AndersonCriticals == {Num(787, 1000), Num(74, 100)}
ShapiroStats == {Num(1, 2), Num(99, 100)}
PValues == {I(0), Num(1, 100), Num(5, 100), Num(6, 100), I(1)}
KsStats == {Num(1, 10)}

InitNorm ==
    /\ pc = "call"
    /\ op = "none"
    /\ ret = [exc |-> "none"]
    /\ \E n \in SampleLengths, a \in AndersonStats, c \in AndersonCriticals,
          w \in ShapiroStats, p \in PValues, kp \in PValues :
          args = [n |-> n,
                  anderson |-> [statistic |-> a, critical |-> c],
                  shapiro |-> [stat |-> w, p |-> p],
                  ks |-> [stat |-> CHOOSE s \in KsStats : TRUE, p |-> kp]]

CheckNormality ==
    /\ pc = "call"
    /\ pc' = "done"
    /\ op' = "check_normality"
    /\ ret' \in check_normality(args.n, args.anderson, args.shapiro, args.ks)
    /\ UNCHANGED args

MeasureNormalityAssessment ==
    /\ pc = "call"
    /\ pc' = "done"
    /\ op' = "measure_normality"
    /\ ret' = MeasureNormality(args.n, args.anderson, args.shapiro, args.ks)
    /\ UNCHANGED args

NextNorm ==
    \/ CheckNormality
    \/ MeasureNormalityAssessment

SpecNorm == InitNorm /\ [][NextNorm]_vars

----------------------------------------------------------------------------
(* Claims about the normality assessment *)

NormalityChecked == pc = "done" /\ op = "check_normality"

Populated(x) == x.k # "none"

C22_OverallVerdict ==
    (pc = "done" /\ op = "measure_normality") =>
        /\ ret.exc = "none"
        /\ ret.overall_normal
              = PyBool(FLt(args.anderson.statistic, args.anderson.critical))

\* C23: whenever the Shapiro-Wilk test is run (len(sample) < 5000) its
\* verdict is the boolean (p-value > 0.05) for every p-value in [0, 1],
\* p-value = 0 included, for which the verdict is 'fail' (False) and not
\* absent.
C23_ShapiroVerdict ==
    (NormalityChecked /\ args.n >= 3 /\ args.n < ShapiroLimit) =>
        /\ ret.exc = "none"
        /\ ret.shapiro_p = args.shapiro.p
        /\ ret.shapiro_normal = PyBool(FGt(args.shapiro.p, Num(5, 100)))

----------------------------------------------------------------------------
(* The caller's dataset and the session state across analysis runs.  The    *)
(* dataset df is a function from column names to columns; the session's     *)
(* baseline_data is "None" or "df", a reference to the caller's dataset.    *)

\* df['proportion'] = df[defect_col] / df[opportunity_col]: the column is
\* assigned in the caller's DataFrame
WithProportion(df) ==
    [c \in DOMAIN df \cup {"proportion"} |->
        IF c = "proportion" THEN PChart(df["defects"], df["opportunities"]).proportion
        ELSE df[c]]

\* st.session_state.project['measure'] as initialised
NoBaseline ==
    [baseline_sigma |-> None, baseline_dpmo |-> None, baseline_cpk |-> QNone,
     baseline_data |-> "None"]

\* the Measure page, continuous analysis, from the button to the session
\* store: data = df[ctq_col].dropna()
MeasureBaseline(data, lsl, usl) ==
    LET mean == Mean(data)
        std == Std(data, 1)
        cpu == DivStd(FSub(usl, mean), 3, std)
        cpl == DivStd(FSub(mean, lsl), 3, std)
        cpk == PyMin(cpu, cpl)
        defects == CountDefects(data, lsl, usl)
        dpmo == Dpmo(defects, Len(data))
    IN [baseline_sigma |-> SigmaLevelDmaic(dpmo),
        baseline_dpmo |-> dpmo,
        baseline_cpk |-> cpk,
        baseline_data |-> "df"]

\* a column of counts as measurements
AsData(col) == [j \in 1..Len(col) |-> I(col[j])]

MaxFrameRows == 2

InitFrame ==
    /\ pc = "call"
    /\ op = "none"
    /\ \E m \in 1..MaxFrameRows :
          \E defects \in [1..m -> 0..MaxDefects], opps \in [1..m -> 1..MaxOpps] :
             \E usl \in {I(1), I(2)} :
                LET df == [c \in {"defects", "opportunities"} |->
                              IF c = "defects" THEN defects ELSE opps]
                IN /\ args = [df |-> df, lsl |-> I(0), usl |-> usl]
                   /\ ret = [df |-> df, session |-> NoBaseline]

Running == pc \in {"call", "done"}

\* six_sigma_app.py, discrete analysis
FrameDiscreteApp ==
    /\ Running
    /\ pc' = "done"
    /\ op' = "app_discrete"
    /\ ret' = [ret EXCEPT !.df = WithProportion(ret.df)]
    /\ UNCHANGED args

\* six_sigma_dmaic_mentor.py, Measure phase, discrete data
FrameDiscreteMentor ==
    /\ Running
    /\ pc' = "done"
    /\ op' = "mentor_discrete"
    /\ ret' = [ret EXCEPT !.df = WithProportion(ret.df)]
    /\ UNCHANGED args

\* complete_dmaic_system.py, Measure page, continuous analysis
FrameMeasureBaseline ==
    /\ Running
    /\ pc' = "done"
    /\ op' = "measure_baseline"
    /\ ret' = [ret EXCEPT !.session =
                  MeasureBaseline(AsData(ret.df["defects"]), args.lsl, args.usl)]
    /\ UNCHANGED args

\* calculate_process_capability and create_control_chart read the column
\* they are given and assign nothing outside their locals
FrameCapability ==
    /\ Running
    /\ pc' = "done"
    /\ op' = "calculate_process_capability"
    /\ calculate_process_capability(AsData(ret.df["defects"]), args.lsl, args.usl,
                                    None).exc = "none"
    /\ UNCHANGED <<args, ret>>

FrameControlChart ==
    /\ Running
    /\ pc' = "done"
    /\ op' = "create_control_chart"
    /\ create_control_chart(AsData(ret.df["defects"]), "I-MR") # NoChart
    /\ UNCHANGED <<args, ret>>

NextFrame ==
    \/ FrameDiscreteApp
    \/ FrameDiscreteMentor
    \/ FrameMeasureBaseline
    \/ FrameCapability
    \/ FrameControlChart

SpecFrame == InitFrame /\ [][NextFrame]_vars

\* C24: an analysis run has no side effects on its inputs or on state shared
\* across runs: after any sequence of capability, control-chart, P-chart,
\* normality, what-if and financial computations the caller's dataset is
\* unchanged (no column added, no value modified) and no reference to it is
\* retained in session state.
C24_NoSideEffects ==
    (pc = "done") =>
        /\ ret.df = args.df
        /\ ret.session.baseline_data = "None"

----------------------------------------------------------------------------
(* generate_project_timeline of complete_dmaic_system.py.  A date is a     *)
(* number of days; today is the value of datetime.now().                   *)

Phase(phase, weeks) == [phase |-> phase, weeks |-> weeks]

\* the timelines dictionary, each entry in its insertion order
Timelines(project_type) ==
    CASE project_type = "Service" ->
            <<Phase("Define", 2), Phase("Measure", 6), Phase("Analyze", 5),
              Phase("Improve", 10), Phase("Control", 3)>>
      [] project_type = "Transactional" ->
            <<Phase("Define", 2), Phase("Measure", 4), Phase("Analyze", 4),
              Phase("Improve", 6), Phase("Control", 2)>>
      [] OTHER ->
            <<Phase("Define", 3), Phase("Measure", 5), Phase("Analyze", 4),
              Phase("Improve", 8), Phase("Control", 2)>>

Task(task, week) == [task |-> task, week |-> week]

\* phase_milestones
PhaseMilestones(phase, weeks) ==
    CASE phase = "Define" ->
            <<Task("Project Charter Approved", 1), Task("Team Kickoff Meeting", 1),
              Task("SIPOC Completed", 2), Task("VOC Analysis Done", 2),
              Task("Define Tollgate Review", 3)>>
      [] phase = "Measure" ->
            <<Task("Data Collection Plan Finalized", 1), Task("MSA Completed", 2),
              Task("Baseline Data Collected", 3),
              Task("Process Capability Calculated", 4),
              Task("Measure Tollgate Review", weeks)>>
      [] phase = "Analyze" ->
            <<Task("Fishbone Diagram Completed", 1), Task("Data Analysis Done", 2),
              Task("Root Causes Identified", 3),
              Task("Root Causes Verified (Statistical)", 4),
              Task("Analyze Tollgate Review", weeks)>>
      [] phase = "Improve" ->
            <<Task("Solution Brainstorming", 1), Task("FMEA Completed", 2),
              Task("DOE/Pilot Started", 3), Task("Solutions Implemented", 6),
              Task("Results Validated", 7), Task("Improve Tollgate Review", weeks)>>
      [] OTHER ->
            <<Task("Control Plan Created", 1), Task("SOPs Updated", 1),
              Task("Training Completed", 2), Task("Process Handoff", 2),
              Task("Final Project Review", 2)>>

\* timedelta(weeks=w), in days
Weeks(w) == 7 * w

Status(date, today) == IF date < today THEN "Completed" ELSE "Upcoming"

\* the entries one pass of the loop over the phases appends: the phase's
\* milestones, then its 'Phase Complete' entry (the only kind of entry with
\* the key is_phase_end)
PhaseEntries(p, start_date, today) ==
    LET tasks == PhaseMilestones(p.phase, p.weeks)
        end_date == start_date + Weeks(p.weeks)
    IN [j \in 1..Len(tasks) |->
            [phase |-> p.phase,
             task |-> tasks[j].task,
             date |-> start_date + Weeks(tasks[j].week),
             week_in_phase |-> tasks[j].week,
             status |-> Status(start_date + Weeks(tasks[j].week), today),
             is_phase_end |-> FALSE]]
       \o <<[phase |-> p.phase,
             task |-> "Phase Complete",
             date |-> end_date,
             week_in_phase |-> p.weeks,
             status |-> Status(end_date, today),
             is_phase_end |-> TRUE]>>

\* the loop over phases.items(), from current_date on
RECURSIVE Milestones(_, _, _)
Milestones(phases, current_date, today) ==
    IF phases = <<>> THEN <<>>
    ELSE PhaseEntries(Head(phases), current_date, today)
         \o Milestones(Tail(phases), current_date + Weeks(Head(phases).weeks), today)

RECURSIVE TotalWeeks(_)
TotalWeeks(phases) ==
    IF phases = <<>> THEN 0 ELSE Head(phases).weeks + TotalWeeks(Tail(phases))

generate_project_timeline(project_type, today) ==
    LET phases == Timelines(project_type)
    IN [total_weeks |-> TotalWeeks(phases),
        total_months |-> Num(TotalWeeks(phases), 4),
        end_date |-> today + Weeks(TotalWeeks(phases)),
        phases |-> phases,
        milestones |-> Milestones(phases, today, today)]

ProjectTypes == {"Manufacturing", "Service", "Transactional", "Healthcare"}
MaxToday == 30

InitTimeline ==
    /\ pc = "call"
    /\ op = "none"
    /\ \E t \in ProjectTypes, today \in 0..MaxToday :
          args = [project_type |-> t, today |-> today]
    /\ ret = [milestones |-> <<>>]

GenerateProjectTimeline ==
    /\ pc = "call"
    /\ pc' = "done"
    /\ op' = "generate_project_timeline"
    /\ ret' = generate_project_timeline(args.project_type, args.today)
    /\ UNCHANGED args

NextTimeline == GenerateProjectTimeline

SpecTimeline == InitTimeline /\ [][NextTimeline]_vars

PhaseWeeks(phases, phase) ==
    LET p == CHOOSE q \in {phases[j] : j \in 1..Len(phases)} : q.phase = phase
    IN p.weeks

\* C29: for every project type (Manufacturing, Service, Transactional, or an
\* unknown type falling back to Manufacturing) every milestone of
\* generate_project_timeline lies inside its own phase (week_in_phase <= the
\* phase's length in weeks) and the milestone list is in non-decreasing date
\* order.
C29_MilestonesInPhase ==
    (pc = "done" /\ op = "generate_project_timeline") =>
        /\ \A j \in 1..Len(ret.milestones) :
              ret.milestones[j].week_in_phase
                  <= PhaseWeeks(ret.phases, ret.milestones[j].phase)
        /\ \A j \in 1..(Len(ret.milestones) - 1) :
              ret.milestones[j].date <= ret.milestones[j + 1].date

----------------------------------------------------------------------------
(* The Measure page of complete_dmaic_system.py under Streamlit's rerun    *)
(* model: every click reruns the script from the top, and st.button        *)
(* returns True only in the rerun its own click caused.  pc is "idle"      *)
(* while the page waits for the user and "rerun" while a click is being    *)
(* served; op is the button clicked last; ret holds the session state, the *)
(* buttons on the page and the exception the last run ended with.          *)

\* st.session_state.project: the Measure entries and the current phase
NewProject(phase) ==
    [baseline |-> NoBaseline, complete |-> FALSE, completion_date |-> "None",
     current_phase |-> phase]

\* lines 1322-1330: the stability analysis, which passes the boolean Series
\* out_of_control to interpret_control_chart
MeasureControlInterp(data) ==
    LET mean == Mean(data)
        mr_mean == Mean(MovingRange(data))
        ucl == FAdd(mean, FMul(Num(133, 50), mr_mean))
        lcl == FSub(mean, FMul(Num(133, 50), mr_mean))
    IN interpret_control_chart(data, ucl, lcl, mean,
                               OocSeries(OutOfControl(data, ucl, lcl)))

\* lines 1574-1577
MarkComplete(project) ==
    [project EXCEPT !.complete = TRUE, !.completion_date = "now",
                    !.current_phase = "Analyze"]

\* What the body of `if st.button("Run Complete Baseline Analysis")` computes
\* from the uploaded data and the limits: the baseline it stores, the
\* interpretation of the control chart and the normality results.  It is a
\* function of the inputs, evaluated once for the dataset.
BaselineAnalysis(data, lsl, usl) ==
    [baseline |-> MeasureBaseline(data, lsl, usl),
     control_interp |-> [exc |-> MeasureControlInterp(data).exc],
     normality_results |-> MeasureNormality(Len(data), None, None, None)]

\* One run of the page's script for the continuous analysis, with the button
\* `clicked` as the cause of the run ("none": no button).  The whole analysis,
\* the 'Mark Measure Phase as Complete' button included, is the body of
\* `if st.button("Run Complete Baseline Analysis")`.  A run that raises ends
\* there: what it stored stays, what follows is neither run nor drawn.
MeasurePage(project, clicked, analysis) ==
    IF clicked = "run"
    THEN LET stored == [project EXCEPT !.baseline = analysis.baseline]
         IN IF analysis.control_interp.exc # "none"
            THEN [project |-> stored, buttons |-> {"run"},
                  exc |-> analysis.control_interp.exc]
            ELSE IF analysis.normality_results.exc # "none"
            THEN [project |-> stored, buttons |-> {"run"},
                  exc |-> analysis.normality_results.exc]
            ELSE [project |-> IF clicked = "mark" THEN MarkComplete(stored)
                              ELSE stored,
                  buttons |-> {"run", "mark"}, exc |-> "none"]
    ELSE [project |-> project, buttons |-> {"run"}, exc |-> "none"]

\* a file is uploaded and the page has been drawn once
InitMeasure ==
    /\ pc = "idle"
    /\ op = "none"
    /\ \E m \in 1..MaxLen : \E data \in [1..m -> DataValues] :
          \E usl \in {I(1), I(2)} :
             args = [data |-> data, lsl |-> I(0), usl |-> usl,
                     analysis |-> BaselineAnalysis(data, I(0), usl)]
    /\ \E phase \in {"Define", "Measure"} :
          ret = MeasurePage(NewProject(phase), "none", args.analysis)

\* the user clicks one of the buttons on the page
UserClick ==
    /\ pc = "idle"
    /\ \E b \in ret.buttons : op' = b
    /\ pc' = "rerun"
    /\ UNCHANGED <<args, ret>>

\* Streamlit reruns the script for the click
RerunMeasurePage ==
    /\ pc = "rerun"
    /\ ret' = MeasurePage(ret.project, op, args.analysis)
    /\ pc' = "idle"
    /\ UNCHANGED <<args, op>>

NextMeasure ==
    \/ UserClick
    \/ RerunMeasurePage

SpecMeasure == InitMeasure /\ [][NextMeasure]_vars

\* every click is served by a rerun, and the user goes on clicking
SpecMeasureLive ==
    SpecMeasure /\ WF_vars(RerunMeasurePage) /\ WF_vars(UserClick)

\* C30: on the Measure page a user who clicks 'Run Complete Baseline
\* Analysis' and then goes for 'Mark Measure Phase as Complete' eventually
\* reaches a state where project.measure.complete is True and current_phase
\* is 'Analyze'.
C30_MeasureCompletes ==
    (op = "run") ~> (ret.project.complete /\ ret.project.current_phase = "Analyze")

====
